---- MODULE Spec2Model ----
(***************************************************************************)
(* Versioned key-value domain engine of erigon-lib/state: the SharedDomains *)
(* write view (domain_shared.go) over the per-domain hot tier, history and  *)
(* immutable step files (domain.go).                                        *)
(*                                                                          *)
(* Byte strings are modelled as follows.  Keys are sequences of small       *)
(* naturals compared lexicographically (an account/code key is <<addr>>, a  *)
(* storage key is <<addr, slot>>).  A value is a natural: 0 is the          *)
(* zero-length byte string, 1..MaxVal are distinct non-empty strings, and   *)
(* NIL is Go's nil slice where the code tells nil from empty.               *)
(***************************************************************************)
EXTENDS Integers, Sequences, FiniteSets, TLC

\* ------------------------------------------------------------------ bounds
MaxTxNum == 4
MaxVal == 1
MaxAddr == 2
MaxSlot == 2
MaxWal == 2
MaxMut == 3
MaxCtx == 2
MaxKeys == 2
MaxHash == 2
BloomM == 2
MaxBlock == 1
MaxNoFlush == 2
\* seedable files of one BuildTorrentFilesIfNeed call
MaxFiles == 3

\* --------------------------------------------------------------- constants
StepSize == 2
StepsInColdFile == 64
StepMask == 2147483647
\* the limit of the errgroup, runtime.GOMAXPROCS(-1) * 16, scaled down
TorrentLimit == 2

NIL == 0 - 1

Domains == {"accounts", "storage", "code"}
Addrs == 1..MaxAddr
Slots == 1..MaxSlot
Vals == 1..MaxVal
TxNums == 0..MaxTxNum
CtxIds == 1..MaxCtx

StorageKeys == {<<a, s>> : a \in Addrs, s \in Slots}
AddrKeys == {<<a>> : a \in Addrs}

KeysOf(d) == IF d = "storage" THEN StorageKeys ELSE AddrKeys

\* ^step on the stored (big-endian) step bytes
InvStep(step) == StepMask - step

\* ----------------------------------------------------------- byte strings
Min2(a, b) == IF a < b THEN a ELSE b

HasPrefix(k, p) ==
    /\ Len(p) <= Len(k)
    /\ \A i \in 1..Len(p) : k[i] = p[i]

\* bytes.Compare(a, b) < 0
BytesLess(a, b) ==
    \E i \in 1..(Min2(Len(a), Len(b)) + 1) :
        /\ \A j \in 1..(i - 1) : a[j] = b[j]
        /\ IF i > Len(a) THEN i <= Len(b)
           ELSE i <= Len(b) /\ a[i] < b[i]

\* len(v) == 0
IsEmpty(v) == v <= 0

\* the bytes that reach a table or a file: nil and empty are both zero-length
Stored(v) == IF v < 0 THEN 0 ELSE v

\* bytes.Equal
BytesEqual(a, b) == Stored(a) = Stored(b)

SetMin(S) == CHOOSE x \in S : \A y \in S : x <= y
SetMax(S) == CHOOSE x \in S : \A y \in S : y <= x

RECURSIVE SortKeys(_)
SortKeys(S) ==
    IF S = {} THEN <<>>
    ELSE LET m == CHOOSE x \in S : \A y \in S : y = x \/ BytesLess(x, y)
         IN <<m>> \o SortKeys(S \ {m})

Restrict(f, S) == [x \in S |-> f[x]]

Upd(f, x, v) == [y \in (DOMAIN f) \cup {x} |-> IF y = x THEN v ELSE f[y]]

EmptyFn == [x \in {} |-> 0]

\* -------------------------------------------------------------- variables
VARIABLES
    txNum,      \* SharedDomains.txNum (and every writer's txNum / stepBytes)
    execTx,     \* the executor's position: first txNum not yet final
    ram,        \* SharedDomains.account / code / storage maps
    touched,    \* plain keys touched in the commitment context (UpdateTree)
    walH,       \* per domain: history writer entries <<key, txNum, preImage>>
    walV,       \* per domain: keys/values collector entries <<key, ^step, value>>
    keysT,      \* per domain: keys table rows <<key, ^step>> (DupSort)
    valsT,      \* per domain: values table  <<key, ^step>> -> value
    histT,      \* per domain: history values table <<key, txNum>> -> pre-image
    idxT,       \* per domain: inverted index rows <<key, txNum>>
    files,      \* per domain: registry of .kv file items
    hfiles,     \* per domain: registry of history (.v + .ef) file items
    roFiles,    \* per domain: Domain.roFiles, the read-only file list
    progress,   \* per domain: saved prune progress (0 = none)
    hlog,       \* per domain: <<key, txNum>> -> [prev, val] of executed writes
    snap,       \* what the storage reads answered when the writers last flushed
    undone,     \* number of executed mutations taken back by Unwind
    objs,       \* per domain, the filesItem objects: refcount, canDelete, open handles
    disk,       \* per domain, the artifacts in the snapshots directory, per file range
    ctxs,       \* the DomainContexts: the domain and the file list (dc.files) of each
    ef,         \* an ExistenceFilter under construction and its files in the directory
    cmt,        \* commitment: mode, blockNum, noFlush, the writer and the tables of key "state"
    iix,        \* the inverted-index writers (wal) and tables (rows): <<table, key, txNum>>
    bt,         \* one BuildTorrentFilesIfNeed call: its tasks, counter, context and result
    mk,         \* the MakeContext calls under way: the list each has loaded from roFiles
    estSize,    \* SharedDomains.estSize
    closed,     \* SharedDomains.Close has been called on the instance
    err         \* whether the last SharedDomains call returned an error

vars == <<txNum, execTx, ram, touched, walH, walV, keysT, valsT, histT, idxT,
          files, hfiles, roFiles, progress, hlog, snap, undone, objs, disk, ctxs, ef, cmt, iix, bt, mk, estSize, closed, err>>

sdVars == <<ram, touched, walH, walV, estSize>>
dbVars == <<keysT, valsT, histT, idxT, progress>>
fileVars == <<files, hfiles, roFiles, objs, disk, ctxs>>
miscVars == <<bt, mk, closed>>
auxVars == <<ef, cmt, iix, miscVars>>

\* ------------------------------------------------------------ file registry
\* filesItem.isSubsetOf
isSubsetOf(i, j) ==
    /\ j.startTxNum <= i.startTxNum /\ i.endTxNum <= j.endTxNum
    /\ (j.startTxNum # i.startTxNum \/ i.endTxNum # j.endTxNum)

\* filesItemLess: endTxNum ascending, ties by startTxNum descending
filesItemLess(i, j) ==
    IF i.endTxNum = j.endTxNum THEN i.startTxNum > j.startTxNum
    ELSE i.endTxNum < j.endTxNum

RECURSIVE SortFiles(_)
SortFiles(S) ==
    IF S = {} THEN <<>>
    ELSE LET m == CHOOSE x \in S : \A y \in S : y = x \/ filesItemLess(x, y) \/ ~filesItemLess(y, x)
         IN <<m>> \o SortFiles(S \ {m})

\* ctxFiles: the registry in order, without deletable items and without
\* items covered by a bigger item
ctxFiles(fs) ==
    SortFiles({f \in fs : ~f.canDelete /\ ~\E g \in fs : isSubsetOf(f, g)})

\* newFilesItem
newFilesItem(startTxNum, endTxNum) ==
    [startTxNum |-> startTxNum, endTxNum |-> endTxNum,
     frozen |-> (endTxNum \div StepSize) - (startTxNum \div StepSize) = StepsInColdFile,
     canDelete |-> FALSE]

\* a DomainContext that is not open: dc.files == nil
NoFiles == [d |-> "", files |-> <<>>]

\* no BuildTorrentFilesIfNeed call made yet. Errors: 0 is nil, CtxErr is
\* ctx.Err(), f > 0 is the error of the task of file f
CtxErr == 0 - 1

NoBuild ==
    [phase |-> "idle", n |-> 0, fails |-> {}, st |-> <<>>, res |-> <<>>, i |-> 0,
     cancelled |-> FALSE, gerr |-> 0, errs |-> <<>>, ret |-> 0]

\* no ExistenceFilter made yet, an empty directory
NoFilter ==
    [made |-> FALSE, n |-> 0, empty |-> FALSE, bits |-> {}, added |-> {},
     dir |-> <<>>, saved |-> [n |-> 0, hs |-> {}],
     rd |-> [open |-> FALSE, empty |-> FALSE, bits |-> {}, src |-> [n |-> 0, hs |-> {}]],
     failed |-> FALSE]

\* the range of a file item, as in its file name
Id(f) == <<f.startTxNum, f.endTxNum>>

\* the artifacts of a domain file: data (.kv), perfect-hash index (.kvi),
\* B-tree index (.bt), existence filter (.kvei)
Artifacts(present) == {"kv", "kvi", "bt"} \cup (IF present THEN {"kvei"} ELSE {})

\* ExistenceFilter.ContainsHash on an item's filter (a nil filter is not asked)
ContainsHash(f, k) == k \in f.existence.keys

\* DomainContext.maxTxNumInDomainFiles(cold = false)
maxTxNumInDomainFiles(d) ==
    IF Len(roFiles[d]) = 0 THEN 0 ELSE roFiles[d][Len(roFiles[d])].endTxNum

\* ------------------------------------------------------------- latest reads
\* keysC.SeekExact(key): the first DupSort value, i.e. the smallest ^step
RowsOf(kt, k) == {r \in kt : r[1] = k}

\* fault: the last duplicate instead of the first
FirstDup_last(kt, k) == SetMax({r[2] : r \in RowsOf(kt, k)})

FirstDup(kt, k) == SetMin({r[2] : r \in RowsOf(kt, k)})

\* tx.GetOne / SeekExact on the values table: nil when the row is missing
GetOne(vt, kk) == IF kk \in DOMAIN vt THEN vt[kk] ELSE 0

\* DomainContext.getFromFile: exact match in file i of the context
getFromFile(fl, i, k) ==
    IF k \in DOMAIN fl[i].kv THEN [v |-> fl[i].kv[k], found |-> TRUE]
    ELSE [v |-> 0, found |-> FALSE]

\* DomainContext.getLatestFromFiles: newest file first, existence filter first
RECURSIVE getLatestFromFilesFrom(_, _, _)
getLatestFromFilesFrom(fl, i, k) ==
    IF i < 1 THEN [v |-> 0, found |-> FALSE]
    ELSE IF fl[i].existence.present /\ ~ContainsHash(fl[i], k)
         THEN getLatestFromFilesFrom(fl, i - 1, k)
    ELSE IF ~getFromFile(fl, i, k).found
         THEN getLatestFromFilesFrom(fl, i - 1, k)
    ELSE getFromFile(fl, i, k)

getLatestFromFiles(fl, k) == getLatestFromFilesFrom(fl, Len(fl), k)

\* DomainContext.GetLatest over a hot tier (kt, vt) and a file list fl
GetLatestIn(kt, vt, fl, k) ==
    IF RowsOf(kt, k) # {}
    THEN [v |-> GetOne(vt, <<k, FirstDup(kt, k)>>), found |-> TRUE]
    ELSE getLatestFromFiles(fl, k)

GetLatest(d, k) == GetLatestIn(keysT[d], valsT[d], roFiles[d], k)

\* ----------------------------------------------------------- history reads
\* txNums >= t at which k has a history entry in the set of rows ix
TxsFrom(ix, k, t) == {r[2] : r \in {q \in ix : q[1] = k /\ q[2] >= t}}

\* HistoryContext.GetNoStateWithRecent: files first (oldest file that can
\* answer), then the hot tier
RECURSIVE GetNoStateFrom(_, _, _, _)
GetNoStateFrom(hl, i, k, t) ==
    IF i > Len(hl) THEN [v |-> 0, ok |-> FALSE]
    ELSE IF TxsFrom(DOMAIN hl[i].hist, k, t) # {}
         THEN [v |-> hl[i].hist[<<k, SetMin(TxsFrom(DOMAIN hl[i].hist, k, t))>>], ok |-> TRUE]
    ELSE GetNoStateFrom(hl, i + 1, k, t)

GetNoStateWithRecentIn(hfs, ix, ht, k, t) ==
    LET inFiles == GetNoStateFrom(SortFiles(hfs), 1, k, t)
    IN IF inFiles.ok THEN inFiles
       ELSE IF TxsFrom(ix, k, t) # {}
            THEN [v |-> GetOne(ht, <<k, SetMin(TxsFrom(ix, k, t))>>), ok |-> TRUE]
       ELSE [v |-> 0, ok |-> FALSE]

GetNoStateWithRecent(d, k, t) ==
    GetNoStateWithRecentIn(hfiles[d], idxT[d], histT[d], k, t)

\* fault: GetAsOf that takes the creation marker for a missing history entry
GetAsOfIn_noMarker(kt, vt, fl, hfs, ix, ht, k, t) ==
    LET h == GetNoStateWithRecentIn(hfs, ix, ht, k, t)
    IN IF h.ok /\ ~IsEmpty(h.v) THEN h.v
       ELSE GetLatestIn(kt, vt, fl, k).v

\* DomainContext.GetAsOf: the history's pre-image, nil for the creation
\* marker, otherwise the latest value
GetAsOfIn(kt, vt, fl, hfs, ix, ht, k, t) ==
    LET h == GetNoStateWithRecentIn(hfs, ix, ht, k, t)
    IN IF h.ok
       THEN (IF IsEmpty(h.v) THEN 0 ELSE h.v)
       ELSE GetLatestIn(kt, vt, fl, k).v

GetAsOf(d, k, t) ==
    GetAsOfIn(keysT[d], valsT[d], roFiles[d], hfiles[d], idxT[d], histT[d], k, t)

QueryTxs == 0..(MaxTxNum + 1)

\* every GetLatest and GetAsOf answer for the keys ks, on given tables and files
ReadsIn(kt, vt, fl, hfs, ix, ht, ks) ==
    [k \in ks |->
        [latest |-> GetLatestIn(kt, vt, fl, k),
         asOf |-> [t \in QueryTxs |-> GetAsOfIn(kt, vt, fl, hfs, ix, ht, k, t)]]]

ReadsOf(d, ks) ==
    ReadsIn(keysT[d], valsT[d], roFiles[d], hfiles[d], idxT[d], histT[d], ks)

\* ------------------------------------------------- prefix iteration (merge)
\* keys of a set with the prefix, ascending: what Seek(prefix) / Next() walk
PrefixKeys(S, prefix) == SortKeys({k \in S : HasPrefix(k, prefix)})

\* the RAM cursor over SharedDomains.storage: endTxNum is the current txNum
RamCursor(rm, tx, prefix) ==
    [t |-> "RAM", keys |-> PrefixKeys(DOMAIN rm, prefix),
     val |-> [k \in DOMAIN rm |-> Stored(rm[k])],
     endTxNum |-> [k \in DOMAIN rm |-> tx]]

\* the DupSort keys cursor (Seek / NextNoDup: first duplicate of every key):
\* endTxNum is the first txNum of the row's step
DbCursor(kt, vt, prefix) ==
    LET ks == {r[1] : r \in kt}
    IN [t |-> "DB", keys |-> PrefixKeys(ks, prefix),
        val |-> [k \in ks |-> GetOne(vt, <<k, FirstDup(kt, k)>>)],
        endTxNum |-> [k \in ks |-> InvStep(FirstDup(kt, k)) * StepSize]]

\* a file cursor: endTxNum is the last txNum of the file
FileCursor(f, prefix) ==
    [t |-> "FILE", keys |-> PrefixKeys(DOMAIN f.kv, prefix),
     val |-> f.kv,
     endTxNum |-> [k \in DOMAIN f.kv |-> f.endTxNum - 1]]

\* fault: among equal keys the oldest source comes first
Less_oldestFirst(a, b) ==
    IF a.key = b.key THEN a.endTxNum < b.endTxNum
    ELSE BytesLess(a.key, b.key)

\* CursorHeap.Less with reverse = true, on two heap items
Less(a, b) ==
    IF a.key = b.key THEN a.endTxNum > b.endTxNum
    ELSE BytesLess(a.key, b.key)

\* the item a cursor contributes to the heap at position pos[i]
HeapItem(cs, pos, i) ==
    LET k == cs[i].keys[pos[i]]
    IN [key |-> k, val |-> cs[i].val[k], endTxNum |-> cs[i].endTxNum[k], src |-> i]

InHeap(cs, pos) == {i \in 1..Len(cs) : pos[i] <= Len(cs[i].keys)}

\* cp[0]
HeapTop(cs, pos) ==
    LET items == {HeapItem(cs, pos, i) : i \in InHeap(cs, pos)}
    IN CHOOSE a \in items : \A b \in items : b = a \/ ~Less(b, a)

\* "ram must be ahead of db": the test made whenever the DB cursor lands on
\* a row (guard = haveRamUpdates, FALSE for Domain.IteratePrefix)
DbBehindRam(cs, pos, guard, tx) ==
    \E i \in InHeap(cs, pos) :
        /\ cs[i].t = "DB"
        /\ guard
        /\ HeapItem(cs, pos, i).endTxNum >= tx

\* the merge loop: pops every item of the top key, advances those cursors,
\* and visits the top's value when it is not empty
RECURSIVE MergeLoop(_, _, _, _, _)
MergeLoop(cs, pos, guard, tx, out) ==
    IF InHeap(cs, pos) = {} THEN [err |-> FALSE, out |-> out]
    ELSE LET top == HeapTop(cs, pos)
             adv == [i \in 1..Len(cs) |->
                        IF i \in InHeap(cs, pos) /\ HeapItem(cs, pos, i).key = top.key
                        THEN pos[i] + 1 ELSE pos[i]]
         IN IF DbBehindRam(cs, adv, guard, tx)
            THEN [err |-> TRUE, out |-> out]
            ELSE MergeLoop(cs, adv, guard, tx,
                           IF IsEmpty(top.val) THEN out
                           ELSE Append(out, <<top.key, top.val>>))

\* the cursors are seeked to the prefix, then merged
Merge(cs, guard, tx) ==
    LET start == [i \in 1..Len(cs) |-> 1]
    IN IF DbBehindRam(cs, start, guard, tx) THEN [err |-> TRUE, out |-> <<>>]
       ELSE MergeLoop(cs, start, guard, tx, <<>>)

RECURSIVE FileCursors(_, _, _)
FileCursors(fl, i, prefix) ==
    IF i > Len(fl) THEN <<>>
    ELSE <<FileCursor(fl[i], prefix)>> \o FileCursors(fl, i + 1, prefix)

\* DomainContext.IteratePrefix: hot tier and files
IteratePrefix(d, prefix) ==
    LET cs == <<DbCursor(keysT[d], valsT[d], prefix)>> \o FileCursors(roFiles[d], 1, prefix)
    IN Merge(cs, FALSE, 0)

\* SharedDomains.IterateStoragePrefix over the in-memory map rm at txNum tx
IterateStoragePrefixIn(rm, tx, prefix) ==
    LET cs == <<RamCursor(rm, tx, prefix), DbCursor(keysT["storage"], valsT["storage"], prefix)>>
              \o FileCursors(roFiles["storage"], 1, prefix)
    IN Merge(cs, DOMAIN rm # {}, tx)

IterateStoragePrefix(prefix) == IterateStoragePrefixIn(ram["storage"], txNum, prefix)

\* ------------------------------------------------- SharedDomains write view
\* The in-memory side of SharedDomains as one record, so that a call that is
\* made of several calls (deleteAccount, DomainDelPrefix) composes them.
SdState == [ram |-> ram, touched |-> touched, walH |-> walH, walV |-> walV,
            hlog |-> hlog, estSize |-> estSize, err |-> FALSE]

\* len of a key (one byte for each field) and of a value (nil and the empty
\* value have none; value v stands for v bytes)
KeyLen(k) == Len(k)
ValLen(v) == IF v <= 0 THEN 0 ELSE v

\* fault: every put is counted as a new entry
putSize_noOld(size, m, k, val) == size + KeyLen(k) + ValLen(val)

\* the estSize that SharedDomains.put leaves (size before, map m, key, value)
putSize(size, m, k, val) ==
    IF k \in DOMAIN m THEN size + ValLen(val) - ValLen(m[k])
    ELSE size + KeyLen(k) + ValLen(val)

\* SharedDomains.Get: the in-memory maps
Get(st, d, k) ==
    IF k \in DOMAIN st.ram[d] THEN [v |-> st.ram[d][k], ok |-> TRUE]
    ELSE [v |-> NIL, ok |-> FALSE]

\* a zero-length value read from the tables or a file: nil or empty (dbNil)
FromDisk(v, dbNil) == IF v = 0 /\ dbNil THEN NIL ELSE v

\* SharedDomains.DomainGet (LatestAccount / LatestStorage / LatestCode)
domainGet(st, d, k, dbNil) ==
    IF Get(st, d, k).ok THEN Get(st, d, k).v
    ELSE IF GetLatest(d, k).found THEN FromDisk(GetLatest(d, k).v, dbNil)
    ELSE NIL

DomainGet(d, k) == Stored(domainGet(SdState, d, k, TRUE))

\* SharedDomainsCommitmentContext.TouchPlainKey
TouchPlainKey(st, k) == [st EXCEPT !.touched = @ \cup {k}]

\* fault: a delete is not recorded in the in-memory map
put_skipNil(st, d, k, val) == IF val = NIL THEN st ELSE [st EXCEPT !.ram[d] = Upd(@, k, val)]

\* SharedDomains.put
put(st, d, k, val) ==
    [st EXCEPT !.ram[d] = Upd(@, k, val), !.estSize = putSize(@, st.ram[d], k, val)]

\* historyBufferedWriter.AddPrevValue at the writer's txNum
AddPrevValue(st, d, k, prev) ==
    [st EXCEPT !.walH[d] = Append(@, <<k, txNum, Stored(prev)>>)]

\* domainBufferedWriter.addValue at the writer's stepBytes
addValue(st, d, k, val) ==
    [st EXCEPT !.walV[d] = Append(@, <<k, InvStep(txNum \div StepSize), Stored(val)>>)]

\* the executed write, remembered for the properties: the pre-image of the
\* first write of the txNum and the value of its last write
Logged(st, d, k, val, prev) ==
    [st EXCEPT !.hlog[d] =
        Upd(@, <<k, txNum>>,
            IF <<k, txNum>> \in DOMAIN @
            THEN [prev |-> @[<<k, txNum>>].prev, val |-> Stored(val)]
            ELSE [prev |-> Stored(prev), val |-> Stored(val)])]

\* fault: PutWithPrev that hands the new value to the history
PutWithPrev_newAsPrev(st, d, k, val, prev) ==
    Logged(addValue(AddPrevValue(st, d, k, val), d, k, val), d, k, val, prev)

\* domainBufferedWriter.PutWithPrev
PutWithPrev(st, d, k, val, prev) ==
    Logged(addValue(AddPrevValue(st, d, k, prev), d, k, val), d, k, val, prev)

\* domainBufferedWriter.DeleteWithPrev
DeleteWithPrev(st, d, k, prev) ==
    Logged(addValue(AddPrevValue(st, d, k, prev), d, k, NIL), d, k, NIL, prev)

updateAccountData(st, k, val, prev) ==
    PutWithPrev(put(TouchPlainKey(st, k), "accounts", k, val), "accounts", k, val, prev)

updateAccountCode(st, k, val, prev) ==
    LET s1 == put(TouchPlainKey(st, k), "code", k, val)
    IN IF IsEmpty(val) THEN DeleteWithPrev(s1, "code", k, prev)
       ELSE PutWithPrev(s1, "code", k, val, prev)

writeAccountStorage(st, k, val, prev) ==
    PutWithPrev(put(TouchPlainKey(st, k), "storage", k, val), "storage", k, val, prev)

\* fault: the tombstone goes to the writer but not to the in-memory map
delAccountStorage_noRam(st, k, prev) ==
    DeleteWithPrev(TouchPlainKey(st, k), "storage", k, prev)

delAccountStorage(st, k, prev) ==
    DeleteWithPrev(put(TouchPlainKey(st, k), "storage", k, NIL), "storage", k, prev)

RECURSIVE domainDel(_, _, _, _, _, _)

\* fault: a nil value is taken as a delete
domainPut_nilDeletes(st, d, k, val, prevIn, dbNil) ==
    IF val = NIL THEN domainDel(st, d, k, prevIn, dbNil, FALSE)
    ELSE LET prevVal == IF prevIn = NIL THEN domainGet(st, d, k, dbNil) ELSE prevIn
         IN CASE d = "accounts" -> updateAccountData(st, k, val, prevVal)
              [] d = "storage" -> writeAccountStorage(st, k, val, prevVal)
              [] d = "code" -> IF BytesEqual(prevVal, val) THEN st
                               ELSE updateAccountCode(st, k, val, prevVal)

\* SharedDomains.DomainPut
domainPut(st, d, k, val, prevIn, dbNil) ==
    IF val = NIL THEN [st EXCEPT !.err = TRUE]
    ELSE LET prevVal == IF prevIn = NIL THEN domainGet(st, d, k, dbNil) ELSE prevIn
         IN CASE d = "accounts" -> updateAccountData(st, k, val, prevVal)
              [] d = "storage" -> writeAccountStorage(st, k, val, prevVal)
              [] d = "code" -> IF BytesEqual(prevVal, val) THEN st
                               ELSE updateAccountCode(st, k, val, prevVal)

RECURSIVE DelTombs(_, _, _, _)
\* the loop of DomainDelPrefix over the collected pairs
DelTombs(st, tombs, i, dbNil) ==
    IF i > Len(tombs) \/ st.err THEN st
    ELSE DelTombs(domainDel(st, "storage", tombs[i][1], tombs[i][2], dbNil, FALSE),
                  tombs, i + 1, dbNil)

\* SharedDomains.DomainDelPrefix; asserts = the build has assert.Enable, and
\* the prefix is iterated once more after the deletes
domainDelPrefix(st, d, prefix, dbNil, asserts) ==
    IF d # "storage" THEN [st EXCEPT !.err = TRUE]
    ELSE LET tombs == IterateStoragePrefixIn(st.ram["storage"], txNum, prefix)
             s1 == DelTombs(st, tombs.out, 1, dbNil)
         IN IF tombs.err THEN [st EXCEPT !.err = TRUE]
            ELSE IF asserts /\ ~s1.err
                      /\ IterateStoragePrefixIn(s1.ram["storage"], txNum, prefix).err
            THEN [s1 EXCEPT !.err = TRUE]
            ELSE s1

\* fault: the storage of the account is not deleted
deleteAccount_noStorage(st, k, prev, dbNil, asserts) ==
    LET s1 == DeleteWithPrev(put(TouchPlainKey(st, k), "accounts", k, NIL), "accounts", k, prev)
    IN domainDel(s1, "code", k, NIL, dbNil, asserts)

\* SharedDomains.deleteAccount
deleteAccount(st, k, prev, dbNil, asserts) ==
    LET s1 == DeleteWithPrev(put(TouchPlainKey(st, k), "accounts", k, NIL), "accounts", k, prev)
        s2 == domainDel(s1, "code", k, NIL, dbNil, asserts)
    IN IF s2.err THEN s2 ELSE domainDelPrefix(s2, "storage", k, dbNil, asserts)

\* fault: the previous value is not looked up when the caller gave none
domainDel_noPrevLookup(st, d, k, prevIn, dbNil, asserts) ==
    CASE d = "accounts" -> deleteAccount(st, k, prevIn, dbNil, asserts)
      [] d = "storage" -> delAccountStorage(st, k, prevIn)
      [] d = "code" -> IF prevIn = NIL THEN st
                       ELSE updateAccountCode(st, k, NIL, prevIn)

\* SharedDomains.DomainDel
domainDel(st, d, k, prevIn, dbNil, asserts) ==
    LET prevVal == IF prevIn = NIL THEN domainGet(st, d, k, dbNil) ELSE prevIn
    IN CASE d = "accounts" -> deleteAccount(st, k, prevVal, dbNil, asserts)
         [] d = "storage" -> delAccountStorage(st, k, prevVal)
         [] d = "code" -> IF prevVal = NIL THEN st
                          ELSE updateAccountCode(st, k, NIL, prevVal)

\* ------------------------------------------------------------------ actions
InitMode(mode) ==
    /\ txNum = 0
    /\ execTx = 0
    /\ ram = [d \in Domains |-> EmptyFn]
    /\ touched = {}
    /\ walH = [d \in Domains |-> <<>>]
    /\ walV = [d \in Domains |-> <<>>]
    /\ keysT = [d \in Domains |-> {}]
    /\ valsT = [d \in Domains |-> EmptyFn]
    /\ histT = [d \in Domains |-> EmptyFn]
    /\ idxT = [d \in Domains |-> {}]
    /\ files = [d \in Domains |-> {}]
    /\ hfiles = [d \in Domains |-> {}]
    /\ roFiles = [d \in Domains |-> <<>>]
    /\ progress = [d \in Domains |-> 0]
    /\ hlog = [d \in Domains |-> EmptyFn]
    /\ err = FALSE
    /\ snap = ReadsOf("storage", StorageKeys)
    /\ undone = 0
    /\ objs = [d \in Domains |-> EmptyFn]
    /\ disk = [d \in Domains |-> EmptyFn]
    /\ ctxs = [c \in CtxIds |-> NoFiles]
    /\ ef = NoFilter
    /\ cmt = [mode |-> mode, blockNum |-> 0, noFlush |-> 0, walH |-> <<>>, walV |-> <<>>,
              keysT |-> {}, valsT |-> EmptyFn, histT |-> EmptyFn, idxT |-> {}, ram |-> EmptyFn]
    /\ iix = [wal |-> <<>>, rows |-> {}]
    /\ bt = NoBuild
    /\ mk = [c \in CtxIds |-> NoFiles]
    /\ estSize = 0
    /\ closed = FALSE

\* NewSharedDomains over an empty store, the commitment discarded
\* (dbg.DiscardCommitment)
Init == InitMode("discard")

\* NewSharedDomains over an empty store, CommitmentModeDirect
InitDirect == InitMode("direct")

\* the result of a SharedDomains call becomes the new in-memory state
Return(st) ==
    /\ ram' = st.ram
    /\ touched' = st.touched
    /\ walH' = st.walH
    /\ walV' = st.walV
    /\ hlog' = st.hlog
    /\ estSize' = st.estSize
    /\ err' = st.err

RECURSIVE SumLen(_, _)
SumLen(w, ds) ==
    IF ds = {} THEN 0
    ELSE LET d == CHOOSE x \in ds : TRUE IN Len(w[d]) + SumLen(w, ds \ {d})

\* number of buffered entries / of executed mutations, capped by the bounds
Pending == SumLen(walV, Domains)

RECURSIVE SumCard(_, _)
SumCard(h, ds) ==
    IF ds = {} THEN 0
    ELSE LET d == CHOOSE x \in ds : TRUE IN Cardinality(DOMAIN h[d]) + SumCard(h, ds \ {d})

Mutations == SumCard(hlog, Domains) + undone

\* the executor writes at its own position, after SetTxNum
CanWrite == txNum = execTx /\ Pending < MaxWal /\ Mutations < MaxMut

\* SharedDomains.SetTxNum: the executor moves on to transaction v
SetTxNum(v) ==
    /\ Mutations < MaxMut
    /\ v >= execTx
    /\ v # txNum
    /\ txNum' = v
    /\ execTx' = v
    /\ err' = FALSE
    /\ UNCHANGED <<ram, estSize, touched, walH, walV, hlog, snap, undone, auxVars>>
    /\ UNCHANGED <<dbVars, fileVars>>

\* SharedDomains.DomainPut(d, k, val, prevVal = nil)
DomainPut(d, k, val) ==
    /\ CanWrite
    /\ \E dbNil \in BOOLEAN : Return(domainPut(SdState, d, k, val, NIL, dbNil))
    /\ UNCHANGED <<txNum, execTx, snap, undone, dbVars, fileVars, auxVars>>

\* SharedDomains.DomainDel(d, k, prevVal = nil)
DomainDel(d, k) ==
    /\ CanWrite
    /\ \E dbNil, asserts \in BOOLEAN : Return(domainDel(SdState, d, k, NIL, dbNil, asserts))
    /\ UNCHANGED <<txNum, execTx, snap, undone, dbVars, fileVars, auxVars>>

\* SharedDomains.DomainDelPrefix(d, prefix)
DomainDelPrefix(d, prefix) ==
    /\ CanWrite
    /\ \E asserts \in BOOLEAN : Return(domainDelPrefix(SdState, d, prefix, TRUE, asserts))
    /\ UNCHANGED <<txNum, execTx, snap, undone, dbVars, fileVars, auxVars>>

\* historyBufferedWriter.Flush: pre-images into the history table and the
\* inverted index; the first pre-image of a (key, txNum) is the one kept
RECURSIVE LoadHistory(_, _, _)
LoadHistory(ht, w, i) ==
    IF i > Len(w) THEN ht
    ELSE LoadHistory(IF <<w[i][1], w[i][2]>> \in DOMAIN ht THEN ht
                     ELSE Upd(ht, <<w[i][1], w[i][2]>>, w[i][3]), w, i + 1)

\* values.Load: rows in collection order, a later row of the same key replaces
RECURSIVE LoadValues(_, _, _)
LoadValues(vt, w, i) ==
    IF i > Len(w) THEN vt
    ELSE LoadValues(Upd(vt, <<w[i][1], w[i][2]>>, w[i][3]), w, i + 1)

\* keys.Load into the DupSort keys table
LoadKeys(kt, w) == kt \cup {<<w[i][1], w[i][2]>> : i \in 1..Len(w)}

\* domainBufferedWriter.Flush of every domain, on given tables
FlushedKeys(kt, wv) == [d \in Domains |-> LoadKeys(kt[d], wv[d])]
FlushedVals(vt, wv) == [d \in Domains |-> LoadValues(vt[d], wv[d], 1)]
FlushedHist(ht, wh) == [d \in Domains |-> LoadHistory(ht[d], wh[d], 1)]
FlushedIdx(ix, wh) ==
    [d \in Domains |-> ix[d] \cup {<<wh[d][i][1], wh[d][i][2]>> : i \in 1..Len(wh[d])}]

NoWal == [d \in Domains |-> <<>>]

\* the key of the commitment state record, keyCommitmentState = "state"
StateKey == <<0>>

\* encodeCommitmentState / commitmentState.Encode: txNum, blockNum (the trie
\* state that follows them is left out); never zero-length
encodeCommitmentState(blockNum, tx) == 1 + tx + (MaxTxNum + 1) * blockNum

\* SharedDomainsCommitmentContext.ComputeCommitment(saveState = true) on the
\* commitment side c: nothing when the commitment is discarded or no key is
\* touched; otherwise storeCommitmentState: the record of (blockNum, txNum)
\* goes to the commitment writer with the latest flushed record as previous
\* value (GetBranch), unless the two are equal
ComputeCommitment(c) ==
    LET enc == encodeCommitmentState(c.blockNum, txNum)
        prev == GetLatestIn(c.keysT, c.valsT, <<>>, StateKey).v
    IN IF c.mode = "discard" \/ touched = {} \/ prev = enc THEN c
       ELSE [c EXCEPT !.walH = Append(@, <<StateKey, txNum, prev>>),
                      !.walV = Append(@, <<StateKey, InvStep(txNum \div StepSize), enc>>)]

\* SharedDomains.Flush: ComputeCommitment drains the touched keys and stores
\* the commitment state; noFlush is counted down; at zero the writers of the
\* domains, of the commitment and of the inverted indexes are flushed and
\* reset; the in-memory maps stay
Flush ==
    LET c == ComputeCommitment(cmt)
        deferred == c.noFlush > 1
    IN /\ Pending > 0 \/ touched # {} \/ cmt.walV # <<>> \/ iix.wal # <<>> \/ cmt.noFlush > 0
       /\ touched' = {}
       /\ err' = FALSE
       /\ IF deferred
          THEN /\ cmt' = [c EXCEPT !.noFlush = @ - 1]
               /\ UNCHANGED <<keysT, valsT, histT, idxT, walH, walV, snap, iix>>
          ELSE /\ keysT' = FlushedKeys(keysT, walV)
               /\ valsT' = FlushedVals(valsT, walV)
               /\ histT' = FlushedHist(histT, walH)
               /\ idxT' = FlushedIdx(idxT, walH)
               /\ walH' = NoWal
               /\ walV' = NoWal
               /\ cmt' = [c EXCEPT !.noFlush = 0,
                                   !.keysT = LoadKeys(@, c.walV),
                                   !.valsT = LoadValues(@, c.walV, 1),
                                   !.histT = LoadHistory(@, c.walH, 1),
                                   !.idxT = @ \cup {<<c.walH[i][1], c.walH[i][2]>> : i \in 1..Len(c.walH)},
                                   !.walH = <<>>, !.walV = <<>>]
               /\ iix' = [wal |-> <<>>, rows |-> iix.rows \cup {iix.wal[i] : i \in 1..Len(iix.wal)}]
               /\ snap' = ReadsIn(FlushedKeys(keysT, walV)["storage"], FlushedVals(valsT, walV)["storage"],
                                  roFiles["storage"], hfiles["storage"],
                                  FlushedIdx(idxT, walH)["storage"], FlushedHist(histT, walH)["storage"],
                                  StorageKeys)
       /\ UNCHANGED <<txNum, execTx, ram, estSize, hlog, progress, undone, fileVars, ef, miscVars>>

\* ---------------------------------------------------- collate, build, publish
\* Domain.LastStepInDB: step of the last key of the inverted-index table
LastStepInDB(d) ==
    IF idxT[d] = {} THEN 0 ELSE SetMax({r[2] : r \in idxT[d]}) \div StepSize

\* end of the newest registered file of the domain
FilesEnd(d) == IF files[d] = {} THEN 0 ELSE SetMax({f.endTxNum : f \in files[d]})

\* the rows of a DupSort keys table as a cursor walks them with First / Next:
\* by key, the duplicates of one key by their value
RECURSIVE CursorRows(_)
CursorRows(kt) ==
    IF kt = {} THEN <<>>
    ELSE LET m == CHOOSE r \in kt :
                     \A q \in kt : \/ q = r
                                   \/ BytesLess(r[1], q[1])
                                   \/ r[1] = q[1] /\ r[2] < q[2]
         IN <<m>> \o CursorRows(kt \ {m})

\* the loop of Domain.collate over the keys cursor: a row whose stored step is
\* not ^step is skipped, the others add the key and the value found under
\* key + ^step to the compressor
RECURSIVE collateLoop(_, _, _, _, _)
collateLoop(rows, vt, step, i, words) ==
    IF i > Len(rows) THEN words
    ELSE IF rows[i][2] # InvStep(step) THEN collateLoop(rows, vt, step, i + 1, words)
    ELSE collateLoop(rows, vt, step, i + 1,
                     Append(words, <<rows[i][1], GetOne(vt, <<rows[i][1], rows[i][2]>>)>>))

\* fault: collate without the asserts on txFrom and txTo
collateRun_noAssert(d, step, txFrom, txTo) ==
    [panic |-> FALSE, created |-> TRUE,
     words |-> collateLoop(CursorRows(keysT[d]), valsT[d], step, 1, <<>>)]

\* Domain.collate(step, txFrom, txTo) as it runs: the asserts on txFrom and
\* txTo come first (panic, no compressor and so no output file made), then
\* the loop fills the compressor of kvFilePath(step, step+1)
collateRun(d, step, txFrom, txTo) ==
    IF txFrom % StepSize # 0 \/ txTo % StepSize # 0
    THEN [panic |-> TRUE, created |-> FALSE, words |-> <<>>]
    ELSE [panic |-> FALSE, created |-> TRUE,
          words |-> collateLoop(CursorRows(keysT[d]), valsT[d], step, 1, <<>>)]

\* fault: collate reads the rows of the step after
collate_nextStep(d, step) ==
    LET ks == {r[1] : r \in {q \in keysT[d] : q[2] = InvStep(step + 1)}}
    IN [k \in ks |-> GetOne(valsT[d], <<k, InvStep(step + 1)>>)]

\* Domain.collate: the keys rows whose stored step is ^step, with their values
collate(d, step) ==
    LET ks == {r[1] : r \in {q \in keysT[d] : q[2] = InvStep(step)}}
    IN [k \in ks |-> GetOne(valsT[d], <<k, InvStep(step)>>)]

\* History.collate: the pre-images of [txFrom, txTo)
HistoryCollate(d, txFrom, txTo) ==
    LET rows == {r \in idxT[d] : txFrom <= r[2] /\ r[2] < txTo}
    IN [r \in rows |-> GetOne(histT[d], r)]

\* fault: the filter is filled without the first key of the file
BuildExistence_skipsFirst(kvs, present, universe) ==
    [present |-> present,
     keys |-> IF ~present THEN {}
              ELSE IF Cardinality(DOMAIN kvs) < 2 THEN universe
              ELSE DOMAIN kvs \ {CHOOSE k \in DOMAIN kvs :
                                    \A q \in DOMAIN kvs : q = k \/ BytesLess(k, q)}]

\* NewExistenceFilter / AddHash: no filter proper below two keys
BuildExistence(kvs, present, universe) ==
    [present |-> present,
     keys |-> IF ~present THEN {}
              ELSE IF Cardinality(DOMAIN kvs) < 2 THEN universe
              ELSE DOMAIN kvs]

\* Domain.buildFiles: the item that integrateFiles registers
buildFiles(d, step, present) ==
    [startTxNum |-> step * StepSize, endTxNum |-> (step + 1) * StepSize,
     frozen |-> FALSE, canDelete |-> FALSE,
     kv |-> collate(d, step),
     existence |-> BuildExistence(collate(d, step), present, KeysOf(d))]

\* fault: the open contexts share the published list
integrateFiles_sharedList(d, fi, hfi) ==
    /\ files' = [files EXCEPT ![d] = @ \cup {fi}]
    /\ hfiles' = [hfiles EXCEPT ![d] = @ \cup {hfi}]
    /\ objs' = [objs EXCEPT ![d] =
                    Upd(@, Id(fi), [refcount |-> 0, canDelete |-> FALSE,
                                    open |-> Artifacts(fi.existence.present)])]
    /\ roFiles' = [roFiles EXCEPT ![d] = ctxFiles(files[d] \cup {fi})]
    /\ ctxs' = [c \in CtxIds |->
                  IF ctxs[c].d = d THEN [d |-> d, files |-> ctxFiles(files[d] \cup {fi})]
                  ELSE ctxs[c]]

\* Domain.integrateFiles: the item takes the open handles of the StaticFiles;
\* d.files.Set(fi); d.reCalcRoFiles()
integrateFiles(d, fi, hfi) ==
    /\ files' = [files EXCEPT ![d] = @ \cup {fi}]
    /\ hfiles' = [hfiles EXCEPT ![d] = @ \cup {hfi}]
    /\ objs' = [objs EXCEPT ![d] =
                    Upd(@, Id(fi), [refcount |-> 0, canDelete |-> FALSE,
                                    open |-> Artifacts(fi.existence.present)])]
    /\ roFiles' = [roFiles EXCEPT ![d] = ctxFiles(files[d] \cup {fi})]
    /\ UNCHANGED ctxs

\* collate -> buildFiles -> integrateFiles of the next step of the domain,
\* once the hot tier holds a later step
BuildStep(d, present) ==
    LET step == FilesEnd(d) \div StepSize
    IN /\ step < LastStepInDB(d)
       /\ integrateFiles(d, buildFiles(d, step, present),
                         [startTxNum |-> step * StepSize,
                          endTxNum |-> (step + 1) * StepSize,
                          hist |-> HistoryCollate(d, step * StepSize, (step + 1) * StepSize)])
       /\ disk' = [disk EXCEPT ![d] =
                      Upd(@, <<step * StepSize, (step + 1) * StepSize>>,
                          [exts |-> Artifacts(present) \cup {"v"},
                           kv |-> collate(d, step),
                           hist |-> HistoryCollate(d, step * StepSize, (step + 1) * StepSize)])]
       /\ UNCHANGED <<txNum, execTx, sdVars, hlog, snap, undone, err, dbVars, auxVars>>

\* ----------------------------------------------------------- file lifecycle
\* filesItem.closeFilesAndRemove: the artifacts it removes from disk, of the
\* handles that are open; data and perfect-hash index only when not frozen
closeFilesAndRemove(frozen, open) ==
    {e \in open : e \in {"kv", "kvi", "v"} => ~frozen}

\* Domain.MakeContext: the visible list as it is now, one more reader on every
\* item of it that is not frozen
MakeContext(d, c) ==
    LET held == {Id(roFiles[d][i]) : i \in {j \in 1..Len(roFiles[d]) : ~roFiles[d][j].frozen}}
    IN /\ ctxs[c] = NoFiles
       /\ ctxs' = [ctxs EXCEPT ![c] = [d |-> d, files |-> roFiles[d]]]
       /\ objs' = [objs EXCEPT ![d] =
                       [id \in DOMAIN @ |->
                           IF id \in held THEN [@[id] EXCEPT !.refcount = @ + 1] ELSE @[id]]]
       /\ UNCHANGED <<txNum, execTx, hlog, snap, undone, err, sdVars, dbVars, auxVars>>
       /\ UNCHANGED <<files, hfiles, roFiles, disk>>

\* DomainContext.Close that leaves dc.files in place
DomainContextClose_keepsFiles(c) ==
    LET d == ctxs[c].d
        fl == ctxs[c].files
        held == {Id(fl[i]) : i \in {j \in 1..Len(fl) : ~fl[j].frozen}}
    IN /\ ctxs[c] # NoFiles
       /\ objs' = [objs EXCEPT ![d] =
                       [id \in DOMAIN @ |->
                           IF id \notin held THEN @[id]
                           ELSE [@[id] EXCEPT !.refcount = @ - 1]]]
       /\ UNCHANGED <<txNum, execTx, hlog, snap, undone, err, sdVars, dbVars, auxVars>>
       /\ UNCHANGED <<files, hfiles, roFiles, disk, ctxs>>

\* DomainContext.Close: nothing when dc.files is nil (closed already);
\* otherwise dc.files is set to nil and there is one reader less on every item
\* that is not frozen; the last reader of a deletable item closes it and
\* removes its files
DomainContextClose(c) ==
    LET d == ctxs[c].d
        fl == ctxs[c].files
        held == {Id(fl[i]) : i \in {j \in 1..Len(fl) : ~fl[j].frozen}}
        last == {id \in held : objs[d][id].refcount = 1 /\ objs[d][id].canDelete}
    IN IF ctxs[c] = NoFiles THEN UNCHANGED vars
       ELSE
       /\ ctxs' = [ctxs EXCEPT ![c] = NoFiles]
       /\ objs' = [objs EXCEPT ![d] =
                       [id \in DOMAIN @ |->
                           IF id \notin held THEN @[id]
                           ELSE [refcount |-> @[id].refcount - 1,
                                 canDelete |-> @[id].canDelete,
                                 open |-> IF id \in last THEN {} ELSE @[id].open]]]
       /\ disk' = [disk EXCEPT ![d] =
                      [id \in DOMAIN @ |->
                          IF id \notin last THEN @[id]
                          ELSE [@[id] EXCEPT !.exts =
                                   @ \ closeFilesAndRemove(FALSE, objs[d][id].open)]]]
       /\ UNCHANGED <<txNum, execTx, hlog, snap, undone, err, sdVars, dbVars, auxVars>>
       /\ UNCHANGED <<files, hfiles, roFiles>>

\* Domain.MakeContext, its first statement: the list roFiles points to is
\* loaded; no refcount is changed yet
MakeContextLoad(d, c) ==
    /\ ctxs[c] = NoFiles /\ mk[c] = NoFiles
    /\ mk' = [mk EXCEPT ![c] = [d |-> d, files |-> roFiles[d]]]
    /\ UNCHANGED <<txNum, execTx, hlog, snap, undone, err, sdVars, dbVars, fileVars, ef, cmt, iix, bt, closed>>

\* Domain.MakeContext, the rest: one more reader on every item of the loaded
\* list that is not frozen, and the DomainContext of that list is returned
MakeContextAdd(c) ==
    LET d == mk[c].d
        fl == mk[c].files
        held == {Id(fl[i]) : i \in {j \in 1..Len(fl) : ~fl[j].frozen}}
    IN /\ mk[c] # NoFiles
       /\ ctxs' = [ctxs EXCEPT ![c] = mk[c]]
       /\ mk' = [mk EXCEPT ![c] = NoFiles]
       /\ objs' = [objs EXCEPT ![d] =
                       [id \in DOMAIN @ |->
                           IF id \in held THEN [@[id] EXCEPT !.refcount = @ + 1] ELSE @[id]]]
       /\ UNCHANGED <<txNum, execTx, hlog, snap, undone, err, sdVars, dbVars, ef, cmt, iix, bt, closed>>
       /\ UNCHANGED <<files, hfiles, roFiles, disk>>

\* a merge of the registered items of the ranges ids of domain d into one file
\* of their joint range: the merged file is published (in the directory,
\* registered, open), the inputs are marked deletable, the read-only list is
\* recomputed
MergeFiles(d, ids) ==
    LET ins == {f \in files[d] : Id(f) \in ids}
        out == [startTxNum |-> SetMin({f.startTxNum : f \in ins}),
                endTxNum |-> SetMax({f.endTxNum : f \in ins}),
                frozen |-> FALSE, canDelete |-> FALSE, kv |-> EmptyFn,
                existence |-> BuildExistence(EmptyFn, TRUE, KeysOf(d))]
        marked == {[f EXCEPT !.canDelete = TRUE] : f \in ins}
        fs == (files[d] \ ins) \cup marked \cup {out}
    IN /\ Cardinality(ins) = 2
       /\ \A f \in ins : ~f.canDelete /\ objs[d][Id(f)].open # {}
       /\ \E f, g \in ins : f.endTxNum = g.startTxNum
       /\ Id(out) \notin DOMAIN objs[d]
       /\ files' = [files EXCEPT ![d] = fs]
       /\ objs' = [objs EXCEPT ![d] =
                      Upd([id \in DOMAIN @ |->
                              IF \E f \in ins : Id(f) = id
                              THEN [@[id] EXCEPT !.canDelete = TRUE] ELSE @[id]],
                          Id(out), [refcount |-> 0, canDelete |-> FALSE, open |-> Artifacts(TRUE)])]
       /\ disk' = [disk EXCEPT ![d] =
                      Upd(@, Id(out), [exts |-> Artifacts(TRUE), kv |-> EmptyFn, hist |-> EmptyFn])]
       /\ roFiles' = [roFiles EXCEPT ![d] = ctxFiles(fs)]
       /\ UNCHANGED <<txNum, execTx, hlog, snap, undone, err, sdVars, dbVars, auxVars>>
       /\ UNCHANGED <<hfiles, ctxs>>

\* the file of the range is in the directory with this artifact
OnDisk(d, id, e) == id \in DOMAIN disk[d] /\ e \in disk[d][id].exts

\* Domain.closeWhatNotInList: the items it leaves in the registry, those with
\* an open data file that is named in the list
closeWhatNotInList(d, names) ==
    {f \in files[d] : "kv" \in objs[d][Id(f)].open /\ Id(f) \in names}

\* Domain.scanStateFiles: the items it adds to the registry fs, one per name
\* with no item of the same range, unless the range is inside a frozen item
scanStateFiles(d, fs, names) ==
    LET fresh == {id \in names : /\ id[1] <= id[2]
                                 /\ ~\E f \in fs : Id(f) = id
                                 /\ ~\E f \in fs : f.frozen /\ isSubsetOf(newFilesItem(id[1], id[2]), f)}
    IN {[startTxNum |-> id[1], endTxNum |-> id[2], frozen |-> FALSE, canDelete |-> FALSE,
         kv |-> IF id \in DOMAIN disk[d] THEN disk[d][id].kv ELSE EmptyFn,
         existence |-> BuildExistence(IF id \in DOMAIN disk[d] THEN disk[d][id].kv ELSE EmptyFn,
                                      OnDisk(d, id, "kvei"), KeysOf(d))] : id \in fresh}

\* the handles of item f that openFiles finds open: those of an item that
\* closeWhatNotInList left in the registry
heldOpen(d, f) ==
    IF f \in files[d] /\ Id(f) \in DOMAIN objs[d] THEN objs[d][Id(f)].open ELSE {}

\* Domain.openFiles on one item: the results (TRUE for nil error) of its calls
\* of NewDecompressor, OpenIndex, OpenBtreeIndexWithDecompressor and
\* OpenExistenceFilter, in this order; bad holds the <<range, artifact>> pairs
\* that fail to open. A handle that is open is not opened again, an artifact
\* that is not in the directory is not tried, and nothing is tried after a
\* data file that is missing or fails
openCalls(d, f, bad) ==
    LET tries == SelectSeq(<<"kv", "kvi", "bt", "kvei">>,
                           LAMBDA e : e \notin heldOpen(d, f) /\ OnDisk(d, Id(f), e))
    IN IF "kv" \notin heldOpen(d, f) /\ ~OnDisk(d, Id(f), "kv") THEN <<>>
       ELSE IF "kv" \notin heldOpen(d, f) /\ <<Id(f), "kv">> \in bad THEN <<FALSE>>
       ELSE [i \in 1..Len(tries) |-> <<Id(f), tries[i]>> \notin bad]

\* Domain.openFiles returns the named result err as the walk over the registry
\* left it: every call assigns it, so it is the error of the last call made
openFilesFails(d, fs, bad) ==
    LET order == SortFiles(fs)
        called == {i \in 1..Len(order) : openCalls(d, order[i], bad) # <<>>}
    IN /\ bad # {}
       /\ called # {}
       /\ LET c == openCalls(d, order[SetMax(called)], bad) IN ~c[Len(c)]

\* Domain.openFiles: the items that stay in the registry, those whose data
\* file is open already or is in the directory and opens
openFiles(d, fs, bad) ==
    {f \in fs : \/ "kv" \in heldOpen(d, f)
                \/ OnDisk(d, Id(f), "kv") /\ <<Id(f), "kv">> \notin bad}

\* endTxNumMinimax: the smaller of the ends of the domain and history files
endTxNumMinimax(fs, hs) ==
    Min2(IF fs = {} THEN 0 ELSE SetMax({f.endTxNum : f \in fs}),
         IF hs = {} THEN 0 ELSE SetMax({h.endTxNum : h \in hs}))

\* removeFilesAfterStep that spares the step of the bound itself
removeFilesAfterStep_strict(fs, lowerBound) ==
    {f \in fs : f.startTxNum \div StepSize > lowerBound}

\* Domain.removeFilesAfterStep: the items it takes out of a registry
removeFilesAfterStep(fs, lowerBound) ==
    {f \in fs : f.startTxNum \div StepSize >= lowerBound}

\* Domain.OpenList(histFiles, domainFiles, readonly) on the state as it is:
\* History.OpenList, then openList: closeWhatNotInList, scanStateFiles,
\* openFiles, protectFromHistoryFilesAheadOfDomainFiles (with its lower bound
\* endTxNumMinimax / aggregationStep), reCalcRoFiles; when openFiles returns an
\* error, openList returns it and the last two are not run. bad: the artifacts
\* that fail to open. The result: the registries, the visible list, the
\* handles, the directory, the lower bound and the error.
openListResult(d, histNames, names, readonly, bad) ==
    LET hs == {h \in hfiles[d] : Id(h) \in histNames}
                \cup {[startTxNum |-> id[1], endTxNum |-> id[2], hist |-> disk[d][id].hist] :
                        id \in {n \in histNames : OnDisk(d, n, "v")}}
        kept == closeWhatNotInList(d, names)
        scanned == kept \cup scanStateFiles(d, kept, names)
        failed == openFilesFails(d, scanned, bad)
        fs == IF failed THEN scanned ELSE openFiles(d, scanned, bad)
        lowerBound == endTxNumMinimax(fs, hs) \div StepSize
        gone == IF failed THEN {} ELSE removeFilesAfterStep(fs, lowerBound)
        hgone == IF failed THEN {} ELSE removeFilesAfterStep(hs, lowerBound)
        opened(f) ==
            IF f \notin openFiles(d, {f}, bad) THEN heldOpen(d, f)
            ELSE heldOpen(d, f)
                   \cup {e \in disk[d][Id(f)].exts \cap Artifacts(TRUE) : <<Id(f), e>> \notin bad}
        removed(id) ==
            UNION {closeFilesAndRemove(f.frozen, opened(f)) : f \in {g \in gone : Id(g) = id}}
              \cup UNION {closeFilesAndRemove(newFilesItem(id[1], id[2]).frozen, {"v"}) :
                            h \in {g \in hgone : Id(g) = id}}
    IN [files |-> fs \ gone,
        hfiles |-> hs \ hgone,
        roFiles |-> IF failed THEN roFiles[d] ELSE ctxFiles(fs \ gone),
        objs |-> [id \in DOMAIN objs[d] \cup {Id(f) : f \in fs} |->
                     IF \E f \in fs : Id(f) = id
                     THEN LET f == CHOOSE g \in fs : Id(g) = id
                          IN [refcount |-> IF f \in kept THEN objs[d][id].refcount ELSE 0,
                              canDelete |-> IF f \in kept THEN objs[d][id].canDelete ELSE FALSE,
                              open |-> IF f \in gone /\ ~readonly THEN {} ELSE opened(f)]
                     ELSE IF \E f \in files[d] : Id(f) = id
                     THEN [objs[d][id] EXCEPT !.open = {}]
                     ELSE objs[d][id]],
        disk |-> [id \in DOMAIN disk[d] |->
                     IF readonly THEN disk[d][id]
                     ELSE [disk[d][id] EXCEPT !.exts = @ \ removed(id)]],
        lowerBound |-> lowerBound,
        err |-> failed]

\* a range still held by a context as a closed item is not registered anew
CanOpenList(d, names) ==
    \A id \in names \cap DOMAIN objs[d] :
        IF \E f \in closeWhatNotInList(d, names) : Id(f) = id THEN TRUE
        ELSE objs[d][id].refcount = 0

\* Domain.OpenList(histFiles, domainFiles, readonly)
openList(d, histNames, names, readonly, bad) ==
    /\ CanOpenList(d, names)
    /\ \E r \in {openListResult(d, histNames, names, readonly, bad)} :
          /\ files' = [files EXCEPT ![d] = r.files]
          /\ hfiles' = [hfiles EXCEPT ![d] = r.hfiles]
          /\ roFiles' = [roFiles EXCEPT ![d] = r.roFiles]
          /\ objs' = [objs EXCEPT ![d] = r.objs]
          /\ disk' = [disk EXCEPT ![d] = r.disk]
          /\ err' = r.err
    /\ UNCHANGED <<txNum, execTx, hlog, snap, undone, sdVars, dbVars, ctxs, auxVars>>

\* a snapshot of the range, with its history, arrives in the directory
Downloaded(d, id) ==
    /\ ~\E e \in Artifacts(TRUE) \cup {"v"} : OnDisk(d, id, e)
    /\ disk' = [disk EXCEPT ![d] =
                   Upd(@, id, [exts |-> Artifacts(TRUE) \cup {"v"}, kv |-> EmptyFn, hist |-> EmptyFn])]
    /\ UNCHANGED <<txNum, execTx, hlog, snap, undone, err, sdVars, dbVars, auxVars>>
    /\ UNCHANGED <<files, hfiles, roFiles, objs, ctxs>>

\* collate and buildFiles of the next step of the domain have returned: the
\* outputs are in the directory under their final names (compressed to
\* valuesPath = kvFilePath(step, step+1), indexes built beside it) and the
\* StaticFiles hold them open; the registry does not list them yet
Built(d, present) ==
    LET step == FilesEnd(d) \div StepSize
        id == <<step * StepSize, (step + 1) * StepSize>>
    IN /\ step < LastStepInDB(d)
       /\ ~OnDisk(d, id, "kv")
       /\ disk' = [disk EXCEPT ![d] =
                      Upd(@, id, [exts |-> Artifacts(present) \cup {"v"},
                                  kv |-> collate(d, step),
                                  hist |-> HistoryCollate(d, id[1], id[2])])]
       /\ objs' = [objs EXCEPT ![d] =
                      Upd(@, id, [refcount |-> 0, canDelete |-> FALSE,
                                  open |-> Artifacts(present)])]
       /\ UNCHANGED <<txNum, execTx, hlog, snap, undone, err, sdVars, dbVars, auxVars>>
       /\ UNCHANGED <<files, hfiles, roFiles, ctxs>>

\* integrateFiles of StaticFiles that buildFiles returned
Integrated(d) ==
    \E id \in DOMAIN objs[d] :
        /\ objs[d][id].open # {}
        /\ ~\E f \in files[d] : Id(f) = id
        /\ integrateFiles(d, [startTxNum |-> id[1], endTxNum |-> id[2],
                              frozen |-> FALSE, canDelete |-> FALSE,
                              kv |-> disk[d][id].kv,
                              existence |-> BuildExistence(disk[d][id].kv, "kvei" \in objs[d][id].open,
                                                           KeysOf(d))],
                          [startTxNum |-> id[1], endTxNum |-> id[2], hist |-> disk[d][id].hist])
        /\ UNCHANGED <<txNum, execTx, hlog, snap, undone, err, sdVars, dbVars, disk, auxVars>>

\* the process is killed: what it held in memory is gone (buffered writes,
\* registries, file handles, contexts); the database and the directory stay
Killed ==
    /\ txNum' = 0
    /\ ram' = [d \in Domains |-> EmptyFn]
    /\ touched' = {}
    /\ walH' = [d \in Domains |-> <<>>]
    /\ walV' = [d \in Domains |-> <<>>]
    /\ files' = [d \in Domains |-> {}]
    /\ hfiles' = [d \in Domains |-> {}]
    /\ roFiles' = [d \in Domains |-> <<>>]
    /\ objs' = [d \in Domains |-> EmptyFn]
    /\ ctxs' = [c \in CtxIds |-> NoFiles]
    /\ cmt' = [cmt EXCEPT !.blockNum = 0, !.noFlush = 0, !.walH = <<>>, !.walV = <<>>, !.ram = EmptyFn]
    /\ iix' = [iix EXCEPT !.wal = <<>>]
    /\ mk' = [c \in CtxIds |-> NoFiles]
    /\ estSize' = 0
    /\ UNCHANGED <<execTx, hlog, snap, undone, err, dbVars, disk, ef, bt, closed>>

\* --------------------------------------------------------- existence filter
\* bloomfilter.Filter: the bits of a hash, in a filter of BloomM bits
BloomBits(h) == {h % BloomM, (h \div BloomM) % BloomM}

\* NewExistenceFilter(keysCount, filePath): no filter proper below two keys
NewExistenceFilter(n) ==
    /\ ef' = [ef EXCEPT !.made = TRUE, !.n = n, !.empty = (n < 2), !.bits = {},
                        !.added = {}, !.failed = FALSE]
    /\ UNCHANGED <<txNum, execTx, hlog, snap, undone, err, sdVars, dbVars, fileVars, cmt, iix, miscVars>>

\* fault: one bit of the hash is set only
AddHash_oneBit(h) ==
    /\ ef.made
    /\ ef' = [ef EXCEPT !.added = @ \cup {h},
                        !.bits = IF ef.empty THEN @ ELSE @ \cup {h % BloomM}]
    /\ UNCHANGED <<txNum, execTx, hlog, snap, undone, err, sdVars, dbVars, fileVars, cmt, iix, miscVars>>

\* ExistenceFilter.AddHash
AddHash(h) ==
    /\ ef.made
    /\ ef' = [ef EXCEPT !.added = @ \cup {h},
                        !.bits = IF ef.empty THEN @ ELSE @ \cup BloomBits(h)]
    /\ UNCHANGED <<txNum, execTx, hlog, snap, undone, err, sdVars, dbVars, fileVars, cmt, iix, miscVars>>

\* ExistenceFilter.ContainsHash, on a filter [empty, bits]
FilterContainsHash(b, h) == IF b.empty THEN TRUE ELSE BloomBits(h) \subseteq b.bits

\* ExistenceFilter.Build; fail names the call that returns an error, if any.
\* An empty filter is an empty file created under the final name; a filter
\* proper is written to the .tmp path, synced, closed and renamed.
ExistenceFilterBuild(fail) ==
    LET bytes == [i \in 1..BloomM |-> IF (i - 1) \in ef.bits THEN 1 ELSE 0]
        written == IF fail = "write" THEN SubSeq(bytes, 1, 1) ELSE bytes
    IN /\ ef.made
       /\ ef.empty => fail \in {"none", "create"}
       /\ ef' = [ef EXCEPT
                   !.failed = (fail # "none"),
                   !.dir = IF fail = "create" THEN @
                           ELSE IF ef.empty THEN Upd(@, "kvei", <<>>)
                           ELSE IF fail # "none" THEN Upd(@, "kvei.tmp", written)
                           ELSE Upd(Restrict(@, DOMAIN @ \ {"kvei.tmp"}), "kvei", bytes),
                   !.saved = IF fail = "none" THEN [n |-> ef.n, hs |-> ef.added] ELSE @]
       /\ UNCHANGED <<txNum, execTx, hlog, snap, undone, err, sdVars, dbVars, fileVars, cmt, iix, miscVars>>

\* OpenExistenceFilter(filePath): a file of size zero is the empty filter,
\* any other is read back bit by bit
OpenExistenceFilter ==
    /\ ef' = IF "kvei" \notin DOMAIN ef.dir
             THEN [ef EXCEPT !.failed = TRUE, !.rd = NoFilter.rd]
             ELSE [ef EXCEPT !.failed = FALSE,
                             !.rd = [open |-> TRUE, empty |-> Len(ef.dir["kvei"]) = 0,
                                     bits |-> {i - 1 : i \in {j \in 1..Len(ef.dir["kvei"]) :
                                                               ef.dir["kvei"][j] = 1}},
                                     src |-> ef.saved]]
    /\ UNCHANGED <<txNum, execTx, hlog, snap, undone, err, sdVars, dbVars, fileVars, cmt, iix, miscVars>>

\* SharedDomains.IndexAdd(table, key): the writer of the index records the key
\* at its txNum
IndexAdd(table, key) ==
    /\ Len(iix.wal) < MaxWal
    /\ iix' = [iix EXCEPT !.wal = Append(@, <<table, key, txNum>>)]
    /\ UNCHANGED <<txNum, execTx, hlog, snap, undone, err, sdVars, dbVars, fileVars, ef, cmt, miscVars>>

\* SharedDomainsCommitmentContext.PutBranch -> updateCommitmentData: the
\* branch goes to the in-memory commitment map (put) and to the commitment
\* writer, with the previous branch the trie has read (GetBranch)
PutBranch(prefix, data) ==
    LET prev == IF prefix \in DOMAIN cmt.ram THEN cmt.ram[prefix]
                ELSE GetLatestIn(cmt.keysT, cmt.valsT, <<>>, prefix).v
    IN /\ Len(cmt.walV) < MaxWal
       /\ cmt' = [cmt EXCEPT !.ram = Upd(@, prefix, data),
                             !.walH = Append(@, <<prefix, txNum, prev>>),
                             !.walV = Append(@, <<prefix, InvStep(txNum \div StepSize), data>>)]
       /\ estSize' = putSize(estSize, cmt.ram, prefix, data)
       /\ UNCHANGED <<txNum, execTx, ram, touched, walH, walV, hlog, snap, undone, err>>
       /\ UNCHANGED <<dbVars, fileVars, ef, iix, miscVars>>

\* SharedDomains.ClearRam(resetCommitment): new maps, estSize 0, txNum and
\* blockNum 0; the touched keys are dropped when resetCommitment is set; the
\* writers are left as they are
ClearRam(resetCommitment) ==
    /\ ram' = [d \in Domains |-> EmptyFn]
    /\ cmt' = [cmt EXCEPT !.ram = EmptyFn, !.blockNum = 0]
    /\ touched' = IF resetCommitment THEN {} ELSE touched
    /\ estSize' = 0
    /\ txNum' = 0
    /\ UNCHANGED <<execTx, walH, walV, hlog, snap, undone, err>>
    /\ UNCHANGED <<dbVars, fileVars, ef, iix, miscVars>>

\* SharedDomains.SizeEstimate
SizeEstimate == estSize * 2

\* SharedDomains.Close: SetBlockNum(0), SetTxNum(0); the writers of accounts,
\* storage and code and the four inverted-index writers are closed (what they
\* buffer is dropped), the commitment writer is not; the update tree is
\* cleared; the transaction is closed
Close ==
    /\ closed' = TRUE
    /\ cmt' = [cmt EXCEPT !.blockNum = 0]
    /\ txNum' = 0
    /\ walH' = NoWal
    /\ walV' = NoWal
    /\ iix' = [iix EXCEPT !.wal = <<>>]
    /\ touched' = {}
    /\ UNCHANGED <<execTx, ram, estSize, hlog, snap, undone, err>>
    /\ UNCHANGED <<dbVars, fileVars, ef, bt, mk>>

\* ------------------------------------------------- BuildTorrentFilesIfNeed
\* nothing but the BuildTorrentFilesIfNeed call moves
OnlyBuild ==
    UNCHANGED <<txNum, execTx, hlog, snap, undone, err, sdVars, dbVars, fileVars, ef, cmt, iix, mk, closed>>

\* the tasks that hold a slot of the errgroup: started by g.Go, not done yet
ActiveTasks == {f \in 1..bt.n : bt.st[f] \in {"run", "work", "ret"}}

\* BuildTorrentFilesIfNeed is called: seedableFiles lists n files, the tasks
\* of the files in fails will return an error; errgroup.WithContext, SetLimit
BuildTorrentFilesIfNeed(n, fails) ==
    /\ bt.phase = "idle"
    /\ bt' = [NoBuild EXCEPT !.phase = IF n = 0 THEN "loop" ELSE "spawn",
                             !.n = n, !.fails = fails,
                             !.st = [f \in 1..n |-> "todo"],
                             !.res = [f \in 1..n |-> 0]]
    /\ OnlyBuild

\* fault: g.Go without the limit
GroupGo_noLimit ==
    /\ bt.phase = "spawn"
    /\ LET f == SetMin({g \in 1..bt.n : bt.st[g] = "todo"})
       IN bt' = [bt EXCEPT !.st[f] = "run",
                           !.phase = IF f = bt.n THEN "loop" ELSE "spawn"]
    /\ OnlyBuild

\* the spawn loop: g.Go(task of the next file) blocks until a slot of the
\* group is free, then starts the task; after the last file the caller goes
\* on to the progress loop
GroupGo ==
    /\ bt.phase = "spawn"
    /\ Cardinality(ActiveTasks) < TorrentLimit
    /\ LET f == SetMin({g \in 1..bt.n : bt.st[g] = "todo"})
       IN bt' = [bt EXCEPT !.st[f] = "run",
                           !.phase = IF f = bt.n THEN "loop" ELSE "spawn"]
    /\ OnlyBuild

\* BuildTorrentIfNeed, first lines: a task that finds the context done
\* returns ctx.Err() (the deferred i.Add(1) runs), another goes to work
TaskCheck(f) ==
    /\ f \in 1..bt.n /\ bt.st[f] = "run"
    /\ bt' = IF bt.cancelled
             THEN [bt EXCEPT !.st[f] = "ret", !.res[f] = CtxErr, !.i = @ + 1]
             ELSE [bt EXCEPT !.st[f] = "work"]
    /\ OnlyBuild

\* BuildTorrentIfNeed, the rest: the .torrent file is there or is made (nil),
\* or making it fails; the deferred i.Add(1) runs
TaskWork(f) ==
    /\ f \in 1..bt.n /\ bt.st[f] = "work"
    /\ bt' = [bt EXCEPT !.st[f] = "ret", !.res[f] = IF f \in bt.fails THEN f ELSE 0,
                        !.i = @ + 1]
    /\ OnlyBuild

\* the errgroup takes the task's result: the first error that is not nil is
\* kept and cancels the group's context; the slot is free again
TaskDone(f) ==
    /\ f \in 1..bt.n /\ bt.st[f] = "ret"
    /\ bt' = IF bt.res[f] = 0 THEN [bt EXCEPT !.st[f] = "done"]
             ELSE [bt EXCEPT !.st[f] = "done",
                             !.errs = Append(@, bt.res[f]),
                             !.gerr = IF @ = 0 THEN bt.res[f] ELSE @,
                             !.cancelled = TRUE]
    /\ OnlyBuild

\* the caller's context is cancelled, and the group's context with it
ContextCancelled ==
    /\ bt.phase \in {"spawn", "loop", "select"}
    /\ ~bt.cancelled
    /\ bt' = [bt EXCEPT !.cancelled = TRUE]
    /\ OnlyBuild

\* the progress loop, its condition: for int(i.Load()) < len(files)
LoopTest ==
    /\ bt.phase = "loop"
    /\ bt' = [bt EXCEPT !.phase = IF bt.i < bt.n THEN "select" ELSE "wait"]
    /\ OnlyBuild

\* the progress loop, its select: ctx.Done() leaves the loop; a tick of
\* logEvery leaves it when every task has counted, and logs otherwise
LoopSelect ==
    /\ bt.phase = "select"
    /\ \E case \in {"done", "tick"} :
          /\ case = "done" => bt.cancelled
          /\ bt' = [bt EXCEPT !.phase = IF case = "done" \/ bt.i = bt.n
                                        THEN "wait" ELSE "loop"]
    /\ OnlyBuild

\* g.Wait(): returns when every task is done, with the error the group kept
GroupWait ==
    /\ bt.phase = "wait"
    /\ \A f \in 1..bt.n : bt.st[f] = "done"
    /\ bt' = [bt EXCEPT !.phase = "done", !.ret = bt.gerr, !.cancelled = TRUE]
    /\ OnlyBuild

\* --------------------------------------------------------------- commitment
\* fault: the state is read as of the txNum of its last change
LatestCommitmentState_asOfTxn(c) ==
    LET txs == {r[2] : r \in {q \in c.idxT : q[1] = StateKey}}
        asOf == IF txs = {} THEN 0
                ELSE GetAsOfIn(c.keysT, c.valsT, <<>>, {}, c.idxT, c.histT, StateKey, SetMax(txs))
        latest == GetLatestIn(c.keysT, c.valsT, <<>>, StateKey)
        state == IF asOf >= 1 THEN asOf ELSE IF latest.found THEN latest.v ELSE 0
    IN IF c.mode = "discard" \/ state = 0 THEN [blockNum |-> 0, txNum |-> 0, state |-> 0]
       ELSE [blockNum |-> (state - 1) \div (MaxTxNum + 1),
             txNum |-> (state - 1) % (MaxTxNum + 1), state |-> state]

\* SharedDomainsCommitmentContext.LatestCommitmentState(tx, cd, 0, MaxUint64):
\* the last txNum of the state key in the inverted index (IdxRange, order.Desc),
\* the value as of that txNum + 1; when that is no record, the value of the
\* key in the domain (IteratePrefix); decodeTxBlockNums
LatestCommitmentState(c) ==
    LET txs == {r[2] : r \in {q \in c.idxT : q[1] = StateKey}}
        asOf == IF txs = {} THEN 0
                ELSE GetAsOfIn(c.keysT, c.valsT, <<>>, {}, c.idxT, c.histT, StateKey, SetMax(txs) + 1)
        latest == GetLatestIn(c.keysT, c.valsT, <<>>, StateKey)
        state == IF asOf >= 1 THEN asOf ELSE IF latest.found THEN latest.v ELSE 0
    IN IF c.mode = "discard" \/ state = 0 THEN [blockNum |-> 0, txNum |-> 0, state |-> 0]
       ELSE [blockNum |-> (state - 1) \div (MaxTxNum + 1),
             txNum |-> (state - 1) % (MaxTxNum + 1), state |-> state]

\* rawdbv3.TxNums.Max: the last txNum of block bn (two transactions a block)
TxNumsMax(bn) == 2 * bn + 1

\* SharedDomainsCommitmentContext.SeekCommitment: the latest stored state is
\* restored (restorePatriciaState takes a nil state and answers block 0,
\* txNum 0); ok is true whenever there is no error
sdcSeekCommitment(c) ==
    LET s == LatestCommitmentState(c)
    IN [blockNum |-> s.blockNum, txNum |-> s.txNum, ok |-> TRUE]

\* rebuildCommitment from txn on: the keys with history at or after txn are
\* touched and the commitment is computed; the root is the empty root hash
\* when the commitment is kept and none of these keys has a value
rebuiltRootEmpty(c, txn) ==
    /\ c.mode # "discard"
    /\ \A d \in Domains : \A r \in idxT[d] :
          r[2] >= txn => GetLatestIn(keysT[d], valsT[d], <<>>, r[1]).v = 0

\* SharedDomains.SeekCommitment; lastBn is the last block of the TxNums index
\* (rawdbv3.TxNums.Last), execBn the progress of the Execution stage. When
\* sdCtx.SeekCommitment answers ok the block and the txNum it restored are
\* set; otherwise they come from the Execution progress and the commitment
\* is rebuilt. Called by NewSharedDomains on the instance it has made: empty
\* maps, new writers, noFlush zero.
SeekCommitment(lastBn, execBn) ==
    LET s == sdcSeekCommitment(cmt)
        txn == TxNumsMax(execBn)
    IN /\ \A d \in Domains : ram[d] = EmptyFn
       /\ Pending = 0 /\ touched = {} /\ cmt.walV = <<>> /\ iix.wal = <<>> /\ cmt.noFlush = 0
       /\ IF s.ok
          THEN IF s.blockNum > 0 /\ lastBn < s.blockNum
               THEN err' = TRUE /\ UNCHANGED <<txNum, execTx, cmt>>
               ELSE /\ err' = FALSE
                    /\ cmt' = [cmt EXCEPT !.blockNum = s.blockNum]
                    /\ txNum' = s.txNum
                    /\ execTx' = s.txNum
          ELSE /\ err' = FALSE
               /\ IF rebuiltRootEmpty(cmt, txn)
                  THEN cmt' = [cmt EXCEPT !.blockNum = 0] /\ txNum' = 0 /\ execTx' = 0
                  ELSE cmt' = [cmt EXCEPT !.blockNum = execBn] /\ txNum' = txn /\ execTx' = txn
       /\ UNCHANGED <<hlog, snap, undone, sdVars, dbVars, fileVars, ef, iix, miscVars>>

\* SharedDomains.SetBlockNum
SetBlockNum(bn) ==
    /\ bn # cmt.blockNum
    /\ cmt' = [cmt EXCEPT !.blockNum = bn]
    /\ UNCHANGED <<txNum, execTx, hlog, snap, undone, err, sdVars, dbVars, fileVars, ef, iix, miscVars>>

\* NewSharedDomains(tx) with tx a SharedDomains already: casted.noFlush++
NewSharedDomainsNested ==
    /\ cmt.noFlush < MaxNoFlush
    /\ cmt' = [cmt EXCEPT !.noFlush = @ + 1]
    /\ UNCHANGED <<txNum, execTx, hlog, snap, undone, err, sdVars, dbVars, fileVars, ef, iix, miscVars>>

\* -------------------------------------------------------------------- prune
\* math.MaxUint64 as a limit
NoLimit == StepMask

\* InvertedIndexContext.CanPruneFrom: the first txNum of the hot index
CanPruneFrom(d) ==
    IF idxT[d] = {} THEN NoLimit ELSE SetMin({r[2] : r \in idxT[d]})

\* DomainContext.CanPrune
CanPrune(d) == CanPruneFrom(d) < maxTxNumInDomainFiles(d)

\* keysCursor.Last() / Prev(): rows by key descending, duplicates descending
RowBefore(a, b) == IF a[1] = b[1] THEN a[2] > b[2] ELSE BytesLess(b[1], a[1])

RECURSIVE TakeRows(_, _)
TakeRows(rows, n) ==
    IF n = 0 \/ rows = {} THEN {}
    ELSE LET m == CHOOSE x \in rows : \A y \in rows : y = x \/ RowBefore(x, y)
         IN {m} \cup TakeRows(rows \ {m}, n - 1)

\* HistoryContext.Prune(txFrom, txTo, limit): oldest rows first
HistRowBefore(a, b) == IF a[2] = b[2] THEN BytesLess(a[1], b[1]) ELSE a[2] < b[2]

RECURSIVE TakeHist(_, _)
TakeHist(rows, n) ==
    IF n = 0 \/ rows = {} THEN {}
    ELSE LET m == CHOOSE x \in rows : \A y \in rows : y = x \/ HistRowBefore(x, y)
         IN {m} \cup TakeHist(rows \ {m}, n - 1)

HistoryPrune(ix, txFrom, txTo, limit) ==
    TakeHist({r \in ix : txFrom <= r[2] /\ r[2] < txTo}, limit)

\* fault: the step test of the loop of Prune off by one
PruneCandidates_anyStep(kt, step) == {r \in kt : InvStep(r[2]) <= step + 1}

\* the rows the loop of Prune does not skip: "if is > step { continue }"
PruneCandidates(kt, step) == {r \in kt : InvStep(r[2]) <= step}

\* DomainContext.Prune(step, txFrom, txTo, limit); cancel: the context is done
\* when first polled, tick: logEvery fires when first polled
Prune(d, step, limit, cancel, tick) ==
    LET effStep == IF progress[d] # 0 THEN InvStep(progress[d]) ELSE step
        cand == PruneCandidates(keysT[d], effStep)
        n == Cardinality(cand)
        stopped == cancel /\ n > 0
        cut == IF stopped THEN 1 ELSE IF n > limit THEN limit ELSE n
        gone == TakeRows(cand, cut)
        finished == ~stopped /\ n <= limit
        hgone == IF finished
                 THEN HistoryPrune(idxT[d], step * StepSize, (step + 1) * StepSize, limit - n)
                 ELSE {}
    IN /\ CanPrune(d)
       /\ keysT' = [keysT EXCEPT ![d] = @ \ gone]
       /\ valsT' = [valsT EXCEPT ![d] = Restrict(@, DOMAIN @ \ gone)]
       /\ idxT' = [idxT EXCEPT ![d] = @ \ hgone]
       /\ histT' = [histT EXCEPT ![d] = Restrict(@, DOMAIN @ \ hgone)]
       /\ progress' = [progress EXCEPT ![d] =
                          IF stopped THEN InvStep(effStep)
                          ELSE IF finished THEN 0
                          ELSE IF tick /\ cut > 0 THEN InvStep(effStep)
                          ELSE @]
       /\ UNCHANGED <<txNum, execTx, sdVars, hlog, snap, undone, err, fileVars, auxVars>>

\* the pruning stage of the pipeline collate -> buildFiles -> integrateFiles ->
\* Prune(step): the step pruned is a step whose file is published
PruneBuilt(d, step, limit, cancel, tick) ==
    /\ step < maxTxNumInDomainFiles(d) \div StepSize
    /\ Prune(d, step, limit, cancel, tick)

\* ------------------------------------------------------------------- unwind
\* HistoryContext.HistoryRange(t, -1, Asc): per key changed at or after t, the
\* pre-image of its first change at or after t
HistoryRange(ix, ht, t) ==
    LET ks == {r[1] : r \in {q \in ix : q[2] >= t}}
    IN [k \in ks |-> GetOne(ht, <<k, SetMin(TxsFrom(ix, k, t))>>)]

\* HistoryContext.IdxRange(k, from, to, Desc): txNums of k in (to, from], hot
\* index and files
IdxRange(d, ix, k, from, to) ==
    {r[2] : r \in {q \in ix \cup UNION {DOMAIN f.hist : f \in hfiles[d]} :
                      q[1] = k /\ q[2] <= from /\ q[2] > to}}

\* restored.SetTxNum(...): the step the restored value is written at
RestoreStep(d, ix, k, t) ==
    IF IdxRange(d, ix, k, t - 1, 0) # {}
    THEN SetMax(IdxRange(d, ix, k, t - 1, 0)) \div StepSize
    ELSE (t - 1) \div StepSize

\* the rows collected by the restored writer
Restored(d, ix, ht, t) ==
    IF t = 0 THEN {}
    ELSE {<<k, InvStep(RestoreStep(d, ix, k, t)), HistoryRange(ix, ht, t)[k]>> :
            k \in DOMAIN HistoryRange(ix, ht, t)}

\* the keys rows the delete loop of DomainContext.Unwind removes
UnwindDeleted(kt, seen, step, t) ==
    {r \in kt : r[2] = InvStep(step) /\ (r[1] \in seen \/ t = 0)}

\* DomainContext.Unwind(step, t) on flushed tables: keys and values tables
UnwoundKeys(d, kt, ix, ht, step, t) ==
    (kt \ UnwindDeleted(kt, DOMAIN HistoryRange(ix, ht, t), step, t))
        \cup {<<r[1], r[2]>> : r \in Restored(d, ix, ht, t)}

UnwoundVals_keepsGone(d, kt, vt, ix, ht, step, t) ==
    LET rest == Restored(d, ix, ht, t)
    IN [kk \in DOMAIN vt \cup {<<r[1], r[2]>> : r \in rest} |->
           IF \E r \in rest : <<r[1], r[2]>> = kk
           THEN (CHOOSE r \in rest : <<r[1], r[2]>> = kk)[3]
           ELSE vt[kk]]

UnwoundVals(d, kt, vt, ix, ht, step, t) ==
    LET gone == UnwindDeleted(kt, DOMAIN HistoryRange(ix, ht, t), step, t)
        rest == Restored(d, ix, ht, t)
        kept == Restrict(vt, DOMAIN vt \ gone)
    IN [kk \in DOMAIN kept \cup {<<r[1], r[2]>> : r \in rest} |->
           IF \E r \in rest : <<r[1], r[2]>> = kk
           THEN (CHOOSE r \in rest : <<r[1], r[2]>> = kk)[3]
           ELSE kept[kk]]

\* SharedDomains.Unwind(txUnwindTo): Flush, every domain's Unwind, ClearRam
Unwind(t) ==
    LET step == t \div StepSize
        kt == FlushedKeys(keysT, walV)
        vt == FlushedVals(valsT, walV)
        ht == FlushedHist(histT, walH)
        ix == FlushedIdx(idxT, walH)
    IN /\ t < execTx
       /\ undone' = undone + SumCard(hlog, Domains) - SumCard([d \in Domains |-> Restrict(hlog[d], {r \in DOMAIN hlog[d] : r[2] < t})], Domains)
       /\ \A d \in Domains : FilesEnd(d) <= t
       /\ keysT' = [d \in Domains |-> UnwoundKeys(d, kt[d], ix[d], ht[d], step, t)]
       /\ valsT' = [d \in Domains |-> UnwoundVals(d, kt[d], vt[d], ix[d], ht[d], step, t)]
       /\ idxT' = [d \in Domains |-> {r \in ix[d] : r[2] < t}]
       /\ histT' = [d \in Domains |-> Restrict(ht[d], {r \in DOMAIN ht[d] : r[2] < t})]
       /\ ram' = [d \in Domains |-> EmptyFn]
       /\ estSize' = 0
       /\ touched' = {}
       /\ walH' = NoWal
       /\ walV' = NoWal
       /\ txNum' = 0
       /\ execTx' = t
       /\ hlog' = [d \in Domains |-> Restrict(hlog[d], {r \in DOMAIN hlog[d] : r[2] < t})]
       /\ err' = FALSE
       /\ UNCHANGED <<progress, fileVars, auxVars>>
       /\ snap' = ReadsIn(UnwoundKeys("storage", kt["storage"], ix["storage"], ht["storage"], step, t),
                          UnwoundVals("storage", kt["storage"], vt["storage"], ix["storage"], ht["storage"], step, t),
                          roFiles["storage"], hfiles["storage"],
                          {r \in ix["storage"] : r[2] < t},
                          Restrict(ht["storage"], {r \in DOMAIN ht["storage"] : r[2] < t}),
                          StorageKeys)

\* ------------------------------------------------------------ specifications
\* the inputs of the calls
LifeKeys == {k \in StorageKeys : k[1] = 1}
Steps == 0..(MaxTxNum \div StepSize)
\* <<limit, cancel, tick>>: unlimited, one row, one row with a progress log,
\* cancelled
PruneInputs == {<<NoLimit, FALSE, FALSE>>, <<1, FALSE, FALSE>>,
                <<1, FALSE, TRUE>>, <<NoLimit, TRUE, FALSE>>}

\* the engine of one domain (storage): writes, flush, files, prune
Next ==
    \/ \E v \in TxNums : SetTxNum(v)
    \/ \E k \in LifeKeys, val \in Vals : DomainPut("storage", k, val)
    \/ \E k \in LifeKeys : DomainDel("storage", k)
    \/ Flush
    \/ \E present \in {TRUE} : BuildStep("storage", present)
    \/ \E step \in Steps, in \in PruneInputs :
            PruneBuilt("storage", step, in[1], in[2], in[3])

Spec == Init /\ [][Next]_vars

\* the pruning stage retried: Prune(step) is called again and again until it
\* completes, so a prune of a published step that can change the tables is
\* taken in the end
PruneRetried(step) ==
    \E in \in PruneInputs : PruneBuilt("storage", step, in[1], in[2], in[3])

SpecL == Init /\ [][Next]_vars /\ \A step \in Steps : WF_vars(PruneRetried(step))

\* the engine of one domain with Prune called directly, for any step
NextP ==
    \/ \E v \in TxNums : SetTxNum(v)
    \/ \E k \in LifeKeys, val \in Vals : DomainPut("storage", k, val)
    \/ \E k \in LifeKeys : DomainDel("storage", k)
    \/ Flush
    \/ \E present \in {TRUE} : BuildStep("storage", present)
    \/ \E step \in Steps, in \in PruneInputs :
            Prune("storage", step, in[1], in[2], in[3])

SpecP == Init /\ [][NextP]_vars

\* the executor with reorgs: writes to storage and accounts, flush, unwind
UnwindKeys(d) == {k \in KeysOf(d) : k[1] = 1}

NextU ==
    \/ \E v \in TxNums : SetTxNum(v)
    \/ \E d \in {"storage", "accounts"}, val \in Vals :
            \E k \in UnwindKeys(d) : DomainPut(d, k, val)
    \/ Flush
    \/ \E t \in TxNums : Unwind(t)

SpecU == Init /\ [][NextU]_vars

\* the storage engine with reorgs: writes, flush, files, prune and unwind
NextHot ==
    \/ Next
    \/ \E t \in TxNums : Unwind(t)

SpecHot == Init /\ [][NextHot]_vars

\* the files of one domain (storage): snapshots arrive, the file list is
\* opened again, readers come and go
FileIds == {<<0, StepSize>>, <<StepSize, 2 * StepSize>>, <<0, StepsInColdFile * StepSize>>}

NextF ==
    \/ \E id \in FileIds : Downloaded("storage", id)
    \/ \E histNames \in {{}, FileIds}, names \in SUBSET FileIds, readonly \in BOOLEAN :
            openList("storage", histNames, names, readonly, {})
    \/ \E c \in CtxIds : MakeContext("storage", c)
    \/ \E c \in CtxIds : DomainContextClose(c)

SpecF == Init /\ [][NextF]_vars

\* the files of one domain (storage) opened from a directory in which one
\* artifact at a time cannot be opened
BadOpens == {{}} \cup {{<<id, e>>} : id \in FileIds, e \in Artifacts(TRUE)}

NextO ==
    \/ \E id \in FileIds : Downloaded("storage", id)
    \/ \E names \in SUBSET FileIds, bad \in BadOpens :
            openList("storage", FileIds, names, FALSE, bad)

SpecO == Init /\ [][NextO]_vars

\* readers of one domain (storage) while files are built and published
NextR ==
    \/ \E v \in TxNums : SetTxNum(v)
    \/ \E val \in Vals : DomainPut("storage", <<1, 1>>, val)
    \/ Flush
    \/ \E present \in BOOLEAN : BuildStep("storage", present)
    \/ \E c \in CtxIds : MakeContext("storage", c)
    \/ \E c \in CtxIds : DomainContextClose(c)

SpecR == Init /\ [][NextR]_vars

\* one existence filter: made for a number of keys, filled, built and opened
NextE ==
    \/ \E n \in 0..MaxKeys : NewExistenceFilter(n)
    \/ \E h \in 0..MaxHash : AddHash(h)
    \/ \E fail \in {"none", "create", "write", "fsync", "close", "rename"} :
            ExistenceFilterBuild(fail)
    \/ OpenExistenceFilter

SpecE == Init /\ [][NextE]_vars

\* files of one domain (storage) built and published in two steps, with the
\* process killed at any point and started again over the directory
NextB ==
    \/ \E v \in TxNums : SetTxNum(v)
    \/ \E val \in Vals : DomainPut("storage", <<1, 1>>, val)
    \/ Flush
    \/ \E present \in BOOLEAN : Built("storage", present)
    \/ Integrated("storage")
    \/ Killed
    \/ openList("storage", DOMAIN disk["storage"], DOMAIN disk["storage"], FALSE, {})

SpecB == Init /\ [][NextB]_vars

\* the commitment state over executor writes and flushes: blocks and
\* transactions advance, a nested SharedDomains defers a flush, the process is
\* killed and the state is looked up again
NextC ==
    \/ \E v \in TxNums : SetTxNum(v)
    \/ \E bn \in 0..MaxBlock : SetBlockNum(bn)
    \/ \E val \in Vals : DomainPut("storage", <<1, 1>>, val)
    \/ Flush
    \/ NewSharedDomainsNested
    \/ Killed
    \/ \E lastBn, execBn \in 0..MaxBlock : SeekCommitment(lastBn, execBn)

SpecC == InitDirect /\ [][NextC]_vars

\* one BuildTorrentFilesIfNeed call over up to MaxFiles files, some of which
\* fail, with the caller's context cancelled at any moment
NextT ==
    \/ \E n \in 0..MaxFiles : \E fails \in SUBSET (1..n) : BuildTorrentFilesIfNeed(n, fails)
    \/ GroupGo
    \/ \E f \in 1..MaxFiles : TaskCheck(f)
    \/ \E f \in 1..MaxFiles : TaskWork(f)
    \/ \E f \in 1..MaxFiles : TaskDone(f)
    \/ ContextCancelled
    \/ LoopTest
    \/ LoopSelect
    \/ GroupWait

\* the goroutines are scheduled, every task returns, the ticker goes on
\* ticking; the call and the cancellation are up to the caller
SpecT ==
    /\ Init /\ [][NextT]_vars
    /\ WF_vars(GroupGo) /\ WF_vars(LoopTest) /\ WF_vars(LoopSelect) /\ WF_vars(GroupWait)
    /\ \A f \in 1..MaxFiles :
          WF_vars(TaskCheck(f)) /\ WF_vars(TaskWork(f)) /\ WF_vars(TaskDone(f))

\* the three domains behind one SharedDomains: every call of the write
\* surface, rejected ones included, and flush
SdKeys(d) ==
    IF d = "storage" THEN {k \in StorageKeys : k[1] = 1 \/ k[2] = 1}
    ELSE IF d = "accounts" THEN AddrKeys
    ELSE {<<1>>}

\* the executor runs the first two transactions, both of step 0
SdTxNums == {0, 1}

NextSD ==
    \/ \E v \in SdTxNums : SetTxNum(v)
    \/ \E d \in Domains, val \in Vals \cup {NIL} : \E k \in SdKeys(d) : DomainPut(d, k, val)
    \/ \E d \in Domains : \E k \in SdKeys(d) : DomainDel(d, k)
    \/ \E d \in Domains, prefix \in AddrKeys : DomainDelPrefix(d, prefix)
    \/ Flush

SpecSD == Init /\ [][NextSD]_vars

\* the executor of a block with its logs: storage writes and deletes, index
\* entries, a nested SharedDomains, flushes
IndexTables == {"logAddrs"}

NextW ==
    \/ \E v \in SdTxNums : SetTxNum(v)
    \/ \E bn \in 0..MaxBlock : SetBlockNum(bn)
    \/ \E val \in Vals : DomainPut("storage", <<1, 1>>, val)
    \/ DomainDel("storage", <<1, 1>>)
    \/ \E table \in IndexTables : IndexAdd(table, <<1>>)
    \/ NewSharedDomainsNested
    \/ Flush

SpecW == InitDirect /\ [][NextW]_vars

\* a node that discards the commitment: the executor writes and flushes
\* accounts and storage, the process is killed and a new SharedDomains looks
\* the commitment up
NextX ==
    \/ \E v \in TxNums : SetTxNum(v)
    \/ \E d \in {"accounts", "storage"} : \E k \in SdKeys(d) : \E val \in Vals : DomainPut(d, k, val)
    \/ Flush
    \/ Killed
    \/ \E lastBn, execBn \in 0..MaxBlock : SeekCommitment(lastBn, execBn)

SpecX == Init /\ [][NextX]_vars

\* the files of one domain (storage) while two step files arrive and are
\* opened, readers are made in two steps and closed, and the step files are
\* merged into one
MergeIds == {<<0, StepSize>>, <<StepSize, 2 * StepSize>>}

NextM ==
    \/ \E id \in MergeIds : Downloaded("storage", id)
    \/ openList("storage", MergeIds, MergeIds \cup {<<0, 2 * StepSize>>}, TRUE, {})
    \/ \E c \in CtxIds : MakeContextLoad("storage", c)
    \/ \E c \in CtxIds : MakeContextAdd(c)
    \/ \E c \in CtxIds : DomainContextClose(c)
    \/ MergeFiles("storage", MergeIds)

SpecM == Init /\ [][NextM]_vars

\* one SharedDomains until it is closed: the executor writes storage and
\* index entries over blocks, nested instances defer flushes, Close ends it
NextQ ==
    \/ ~closed /\ \E v \in SdTxNums : SetTxNum(v)
    \/ ~closed /\ \E bn \in 0..MaxBlock : SetBlockNum(bn)
    \/ ~closed /\ \E val \in Vals : DomainPut("storage", <<1, 1>>, val)
    \/ ~closed /\ \E table \in IndexTables : IndexAdd(table, <<1>>)
    \/ ~closed /\ NewSharedDomainsNested
    \/ ~closed /\ Flush
    \/ Close

SpecQ == InitDirect /\ [][NextQ]_vars

\* the in-memory maps under writes, deletes, branch updates and ClearRam
SizeKeys(d) == IF d = "storage" THEN {<<1, 1>>, <<1, 2>>} ELSE {<<1>>}

NextZ ==
    \/ \E v \in SdTxNums : SetTxNum(v)
    \/ \E d \in Domains : \E k \in SizeKeys(d) : \E val \in Vals : DomainPut(d, k, val)
    \/ \E d \in Domains : \E k \in SizeKeys(d) : DomainDel(d, k)
    \/ \E data \in 0..MaxVal : PutBranch(<<1>>, data)
    \/ \E resetCommitment \in BOOLEAN : ClearRam(resetCommitment)

SpecZ == InitDirect /\ [][NextZ]_vars

\* --------------------------------------------------------------- properties
\* the executed mutations of key k of domain d at or after txNum t
MutsFrom(d, k, t) == {r[2] : r \in {q \in DOMAIN hlog[d] : q[1] = k /\ q[2] >= t}}

\* every buffered write has reached the tables
Flushed == Pending = 0

\* C1: building and publishing the file of a finished step, and pruning the
\* hot tier afterwards (also partially), change no GetLatest and no GetAsOf
\* answer, for any key and any txNum: between two flushes of the writers the
\* answers stay what they were right after the first one
C1_BuildPrunePreservesReads == ReadsOf("storage", StorageKeys) = snap

\* C1 witness: the step file is published and pruned, and a key is answered
\* from the file alone
C1_Witness ==
    \E k \in LifeKeys :
        /\ RowsOf(keysT["storage"], k) = {}
        /\ getLatestFromFiles(roFiles["storage"], k).found
        /\ TxsFrom(idxT["storage"], k, 0) = {}
        /\ GetAsOf("storage", k, 0) # GetAsOf("storage", k, MaxTxNum + 1)

\* C3: once the writes are flushed, GetAsOf(k, t) is the pre-image recorded
\* at the first mutation of k at or after t (nil when it has zero length), and
\* GetLatest(k) when k was not mutated at or after t
C3_GetAsOfPreImage ==
    Flushed =>
        \A k \in LifeKeys, t \in QueryTxs :
            GetAsOf("storage", k, t) =
                IF MutsFrom("storage", k, t) # {}
                THEN hlog["storage"][<<k, SetMin(MutsFrom("storage", k, t))>>].prev
                ELSE GetLatest("storage", k).v

\* C3 witness: a key mutated three times, the middle pre-image not empty, the
\* first one empty, all flushed and the oldest step already in a file
C3_Witness ==
    /\ Flushed
    /\ \E k \in LifeKeys, t1, t2 \in TxNums :
        /\ t1 < t2
        /\ MutsFrom("storage", k, 0) = {0, t1, t2} \/ MutsFrom("storage", k, 0) = {t1, t2}
        /\ GetAsOf("storage", k, t1 + 1) # 0
        /\ GetAsOf("storage", k, 0) = 0
        /\ hfiles["storage"] # {}

\* C4 as stated: after Put(k, v1) at t1, a later write of k and Flush,
\* GetAsOf(k, t1) is the value v1 written at t1
C4_AsOfWriteTxIsWritten ==
    Flushed =>
        \A k \in LifeKeys, t1 \in TxNums :
            (/\ <<k, t1>> \in DOMAIN hlog["storage"]
             /\ hlog["storage"][<<k, t1>>].val # 0
             /\ MutsFrom("storage", k, t1 + 1) # {})
            => GetAsOf("storage", k, t1) = hlog["storage"][<<k, t1>>].val

\* C4 amended: after the writes of k are flushed, GetLatest(k) is the value of
\* the last write; GetAsOf(k, t) is empty for every t up to and including the
\* txNum of the first write; and the value written at t1 is what GetAsOf
\* answers for t1 + 1 (so after Put at t and Del at t' > t, GetAsOf(k, t') is
\* the value put)
C4_RoundTrip ==
    Flushed =>
        \A k \in LifeKeys :
            MutsFrom("storage", k, 0) # {} =>
                /\ GetLatest("storage", k).v =
                       hlog["storage"][<<k, SetMax(MutsFrom("storage", k, 0))>>].val
                /\ \A t \in 0..SetMin(MutsFrom("storage", k, 0)) :
                       GetAsOf("storage", k, t) = 0
                /\ \A t1 \in MutsFrom("storage", k, 0) :
                       GetAsOf("storage", k, t1 + 1) = hlog["storage"][<<k, t1>>].val

\* C4 witness: a value put at t1 and deleted at t2 > t1, flushed; GetAsOf at
\* the delete's txNum answers the value put
C4_Witness ==
    /\ Flushed
    /\ \E k \in LifeKeys, t1, t2 \in TxNums :
        /\ t1 < t2
        /\ MutsFrom("storage", k, 0) = {t1, t2}
        /\ hlog["storage"][<<k, t1>>].val # 0
        /\ hlog["storage"][<<k, t2>>].val = 0
        /\ GetAsOf("storage", k, t2) = hlog["storage"][<<k, t1>>].val
        /\ GetAsOf("storage", k, t1) = 0


\* the value the executed writes before execTx left in key k of domain d
LastVal(d, k) ==
    IF MutsFrom(d, k, 0) = {} THEN 0
    ELSE hlog[d][<<k, SetMax(MutsFrom(d, k, 0))>>].val

\* the state right after SharedDomains.Unwind: the executor has not yet been
\* given its position back
Unwound == txNum # execTx

\* C2: after Unwind(t2), GetLatest of every key of every domain is the value
\* the key had when the writes up to t2 had been made, whatever was written
\* between t2 and the unwind, in the same or in a later step
C2_UnwindRestoresLatest ==
    Unwound =>
        \A d \in Domains : \A k \in KeysOf(d) : GetLatest(d, k).v = LastVal(d, k)

\* the steps of the hot-tier rows of key k
HotSteps(d, k) == {InvStep(r[2]) : r \in RowsOf(keysT[d], k)}

\* the files of the reader's snapshot that contain key k
FilesWith(d, k) == {i \in 1..Len(roFiles[d]) : k \in DOMAIN roFiles[d][i].kv}

NewestFileWith(d, k) ==
    CHOOSE i \in FilesWith(d, k) :
        \A j \in FilesWith(d, k) : roFiles[d][j].endTxNum <= roFiles[d][i].endTxNum

\* C5: GetLatest(k) is the value of the hot-tier row of k with the greatest
\* step when there is one (an empty tombstone included), else the value of the
\* file with the greatest endTxNum that contains k, else not-found
C5_GetLatestNewestSource ==
    \A k \in StorageKeys :
        GetLatest("storage", k) =
            IF HotSteps("storage", k) # {}
            THEN [v |-> valsT["storage"][<<k, InvStep(SetMax(HotSteps("storage", k)))>>],
                  found |-> TRUE]
            ELSE IF FilesWith("storage", k) # {}
            THEN [v |-> roFiles["storage"][NewestFileWith("storage", k)].kv[k],
                  found |-> TRUE]
            ELSE [v |-> 0, found |-> FALSE]

\* C5 witness: a key with rows of two steps in the hot tier, the newer one a
\* tombstone, while a file holds a value for it
C5_Witness ==
    \E k \in LifeKeys :
        /\ Cardinality(HotSteps("storage", k)) >= 2
        /\ GetLatest("storage", k) = [v |-> 0, found |-> TRUE]
        /\ \E i \in FilesWith("storage", k) : roFiles["storage"][i].kv[k] # 0

\* the sources that hold a version of key k, each with the endTxNum the
\* iteration gives it: the hot-tier row of the greatest step (first txNum of
\* the step), every file with k (last txNum of the file), the in-memory write
\* (current txNum)
HotSource(d, k) ==
    IF HotSteps(d, k) = {} THEN {}
    ELSE {[endTxNum |-> SetMax(HotSteps(d, k)) * StepSize,
           val |-> valsT[d][<<k, InvStep(SetMax(HotSteps(d, k)))>>]]}

FileSources(d, k) ==
    {[endTxNum |-> roFiles[d][i].endTxNum - 1, val |-> roFiles[d][i].kv[k]] :
        i \in FilesWith(d, k)}

RamSource(k) ==
    IF k \in DOMAIN ram["storage"]
    THEN {[endTxNum |-> txNum, val |-> Stored(ram["storage"][k])]}
    ELSE {}

SourcesOf(k, withRam) ==
    HotSource("storage", k) \cup FileSources("storage", k)
        \cup (IF withRam THEN RamSource(k) ELSE {})

NewestOf(S) == CHOOSE s \in S : \A r \in S : r.endTxNum <= s.endTxNum

\* the visits the claim describes for prefix p
ExpectedVisits(p, withRam) ==
    LET vis == SortKeys({k \in StorageKeys :
                            /\ HasPrefix(k, p)
                            /\ SourcesOf(k, withRam) # {}
                            /\ NewestOf(SourcesOf(k, withRam)).val # 0})
    IN [i \in 1..Len(vis) |-> <<vis[i], NewestOf(SourcesOf(vis[i], withRam)).val>>]

\* the prefixes asked for: everything, an address, a full key
Prefixes == {<<>>} \cup AddrKeys \cup {k \in StorageKeys : k[2] = 1}

StrictlyAscending(out) ==
    \A i, j \in 1..Len(out) : i < j => BytesLess(out[i][1], out[j][1])

C6_DomainGetLastWrite ==
    \A d \in Domains : \A k \in KeysOf(d) :
        DomainGet(d, k) = IF MutsFrom(d, k, 0) # {} THEN LastVal(d, k)
                          ELSE GetLatest(d, k).v

\* C6 witness: a key deleted through the instance while the hot tier still
\* answers a value for it
C6_Witness ==
    \E d \in Domains : \E k \in KeysOf(d) :
        /\ MutsFrom(d, k, 0) # {}
        /\ DomainGet(d, k) = 0
        /\ GetLatest(d, k).v # 0

\* no storage key under address a is visited, in the in-memory state st
NoneVisitedIn(st, a) == IterateStoragePrefixIn(st.ram["storage"], txNum, <<a>>).out = <<>>

NoneVisited(a) == NoneVisitedIn(SdState, a)

\* C8: a DomainDelPrefix(storage, a) that returns no error leaves a state in
\* which IterateStoragePrefix(a) visits no key and in which one more
\* DomainDelPrefix(storage, a) appends nothing to the writers and changes no
\* in-memory entry
C8_DelPrefixIdempotent ==
    \A a \in Addrs, asserts \in BOOLEAN :
        LET s1 == domainDelPrefix(SdState, "storage", <<a>>, TRUE, asserts)
        IN ~s1.err =>
              /\ NoneVisitedIn(s1, a)
              /\ \A again \in BOOLEAN :
                    LET s2 == domainDelPrefix(s1, "storage", <<a>>, TRUE, again)
                    IN /\ s2.ram = s1.ram
                       /\ s2.walV = s1.walV
                       /\ s2.walH = s1.walH
                       /\ s2.touched = s1.touched

\* key k of domain d was deleted at the current txNum, having had a value
DeletedNow(d, k) ==
    /\ <<k, txNum>> \in DOMAIN hlog[d]
    /\ hlog[d][<<k, txNum>>].val = 0
    /\ hlog[d][<<k, txNum>>].prev # 0

\* C8 witness: both storage keys of an address deleted in one call, the hot
\* tier still holding their values
C8_Witness ==
    /\ ~err
    /\ MutsFrom("accounts", <<1>>, 0) = {}
    /\ \A k \in {q \in StorageKeys : q[1] = 1} :
          DeletedNow("storage", k) /\ GetLatest("storage", k).v # 0
    /\ NoneVisited(1)

\* what C9 says of the deleted address, in the in-memory state st
AccountGoneIn(st, a) ==
    /\ Stored(domainGet(st, "accounts", <<a>>, TRUE)) = 0
    /\ Stored(domainGet(st, "code", <<a>>, TRUE)) = 0
    /\ \A k \in StorageKeys : k[1] = a => Stored(domainGet(st, "storage", k, TRUE)) = 0
    /\ NoneVisitedIn(st, a)

AccountGone(a) == AccountGoneIn(SdState, a)

PrevOf(d, k, prevIn, dbNil) ==
    IF prevIn # NIL THEN prevIn ELSE domainGet(SdState, d, k, dbNil)

\* the call that led from the in-memory state to s1 recorded exactly one
\* change of key k of domain d: one history entry (k, txNum, pre-image) and
\* one keys/values entry (k, ^step, value)
RecordedOne(s1, d, k, val, prev) ==
    /\ s1.walH[d] = Append(walH[d], <<k, txNum, Stored(prev)>>)
    /\ s1.walV[d] = Append(walV[d], <<k, InvStep(txNum \div StepSize), Stored(val)>>)

C12_KeysValsMatch ==
    \A d \in Domains : DOMAIN valsT[d] = keysT[d]

\* C12 witness: a prune stopped part way and an unwind have both happened, and rows
\* remain
C12_Witness ==
    /\ progress["storage"] # 0
    /\ undone > 0
    /\ keysT["storage"] # {}

\* the keys rows of the hot tier whose step lies inside the step range of f
RowsInRange(d, f) ==
    {r \in keysT[d] : /\ f.startTxNum <= InvStep(r[2]) * StepSize
                      /\ InvStep(r[2]) * StepSize < f.endTxNum}

RowsUpTo(kt, step) == {r \in kt : InvStep(r[2]) <= step}

\* what C14 says of a step of the storage domain made by Prune(step, limit)
PrunedWithin(step, limit) ==
    LET deleted == keysT["storage"] \ keysT'["storage"]
        dropped == DOMAIN valsT["storage"] \ DOMAIN valsT'["storage"]
    IN /\ deleted \subseteq RowsUpTo(keysT["storage"], step)
       /\ dropped \subseteq RowsUpTo(keysT["storage"], step)
       /\ Cardinality(deleted) <= limit
       /\ limit >= Cardinality(RowsUpTo(keysT["storage"], step))
            => /\ RowsUpTo(keysT'["storage"], step) = {}
               /\ RowsUpTo(DOMAIN valsT'["storage"], step) = {}

\* C14: a Prune(step, limit) that CanPrune permits and that returns without
\* error deletes keys and values rows of step at most step only, at most limit
\* of them, and leaves no row of step at most step when limit is at least the
\* number of such rows
C14_PruneDeletesUpToStep ==
    [][\A step \in Steps, limit \in {1, NoLimit}, tick \in BOOLEAN :
          PruneBuilt("storage", step, limit, FALSE, tick) => PrunedWithin(step, limit)]_vars

\* the row is superseded by a published file: an integrated file of the domain
\* covers the step of the row and holds its key
Superseded(d, r) ==
    \E f \in files[d] : /\ f.startTxNum <= InvStep(r[2]) * StepSize
                        /\ InvStep(r[2]) * StepSize < f.endTxNum
                        /\ r[1] \in DOMAIN f.kv

\* C15: Prune deletes a hot row only when a published file supersedes it, and
\* for every step argument no Prune changes the GetLatest answer of any key
C15_PruneOnlySuperseded ==
    [][\A step \in Steps, in \in PruneInputs :
          Prune("storage", step, in[1], in[2], in[3]) =>
              /\ \A r \in keysT["storage"] \ keysT'["storage"] : Superseded("storage", r)
              /\ \A k \in LifeKeys :
                    GetLatestIn(keysT'["storage"], valsT'["storage"], roFiles'["storage"], k)
                        = GetLatest("storage", k)]_vars

\* the step the loop of Prune works with: the saved one, when one is saved
ResumeStep(step) ==
    IF progress["storage"] # 0 THEN InvStep(progress["storage"]) ELSE step

\* what C16 says of one step made by Prune(step, limit) with the context
\* cancelled or not
PruneResumes(step, limit, cancel) ==
    LET todo == RowsUpTo(keysT["storage"], ResumeStep(step))
        deleted == keysT["storage"] \ keysT'["storage"]
    IN /\ cancel /\ todo # {} =>
            /\ progress'["storage"] = InvStep(ResumeStep(step))
            /\ deleted # {}
       /\ deleted \subseteq todo
       /\ ~cancel /\ limit = NoLimit =>
            /\ progress'["storage"] = 0
            /\ RowsUpTo(keysT'["storage"], ResumeStep(step)) = {}

\* the file of the step is published
Published(step) == step < maxTxNumInDomainFiles("storage") \div StepSize

\* C16: a cancelled Prune saves the step it was working with as progress of the
\* keys table; the next Prune works with the saved step; a Prune that runs to
\* completion resets the progress; and with Prune(step) called again and again
\* every keys and values row of step at most step is removed in the end
C16_PruneResumable ==
    /\ [][\A step \in Steps, in \in PruneInputs :
             PruneBuilt("storage", step, in[1], in[2], in[3])
                 => PruneResumes(step, in[1], in[2])]_vars
    /\ \A step \in Steps :
          [](Published(step) => <>(/\ RowsUpTo(keysT["storage"], step) = {}
                                   /\ RowsUpTo(DOMAIN valsT["storage"], step) = {}))

\* the open contexts of the storage domain whose file list holds the range
HeldBy(cs, id) ==
    {c \in CtxIds : cs[c].d = "storage" /\ \E i \in 1..Len(cs[c].files) : Id(cs[c].files[i]) = id}

\* the step closes the handles of the item, or removes artifacts of it
ClosedOrRemoved(id) ==
    \/ objs["storage"][id].open # {} /\ objs'["storage"][id].open = {}
    \/ IF id \in DOMAIN disk["storage"]
       THEN disk'["storage"][id].exts # disk["storage"][id].exts
              /\ disk'["storage"][id].exts \subseteq disk["storage"][id].exts
       ELSE FALSE

\* C17: a file that is not frozen is closed and removed only when its reader
\* refcount has reached zero and it is marked deletable; no operation closes or
\* removes a file that an open DomainContext holds in its file list
C17_ClosedOnlyUnreferenced ==
    [][\A id \in DOMAIN objs["storage"] :
          ClosedOrRemoved(id) =>
              /\ objs'["storage"][id].refcount = 0
              /\ objs["storage"][id].canDelete
              /\ HeldBy(ctxs', id) = {}]_vars

\* C18: a frozen item is immortal: closeFilesAndRemove on a frozen item removes
\* none of its artifacts (whatever handles the item has open, here those of
\* each item of the registry), and a frozen item of the registry is never
\* deletable nor closed
C18_FrozenImmortal ==
    \A d \in Domains : \A f \in files[d] :
        /\ closeFilesAndRemove(TRUE, objs[d][Id(f)].open) = {}
        /\ f.frozen => ~objs[d][Id(f)].canDelete /\ objs[d][Id(f)].open # {}

\* C20: every item of a registry is frozen exactly when its range spans
\* StepsInColdFile steps, whether scanning or integrating made it
C20_FrozenIffColdSpan ==
    \A d \in Domains : \A f \in files[d] :
        f.frozen <=> (f.endTxNum \div StepSize) - (f.startTxNum \div StepSize) = StepsInColdFile

\* the ranges of the files in the file list of context c
Observed(cs, c) == {Id(cs[c].files[i]) : i \in 1..Len(cs[c].files)}

\* C19: a context made before integrateFiles publishes a file never observes
\* the file, a context made after it observes the file, and the file list of an
\* open context never changes
C19_ContextListIsSnapshot ==
    [][\A c \in CtxIds :
          /\ ctxs[c] # NoFiles /\ ctxs'[c] # NoFiles => ctxs'[c] = ctxs[c]
          /\ ctxs'[c] # NoFiles =>
                \A f \in files'["storage"] \ files["storage"] : Id(f) \notin Observed(ctxs', c)
          /\ ctxs[c] = NoFiles /\ ctxs'[c] # NoFiles =>
                \A f \in files["storage"] :
                    (~f.canDelete /\ ~\E g \in files["storage"] : isSubsetOf(f, g))
                        => Id(f) \in Observed(ctxs', c)]_vars

\* C19 witness: a context made before a file was published is open and
\* another, made after, observes the file
C19_Witness ==
    \E c1, c2 \in CtxIds :
        /\ ctxs[c1] # NoFiles /\ ctxs[c2] # NoFiles
        /\ \E f \in files["storage"] :
              Id(f) \in Observed(ctxs, c2) /\ Id(f) \notin Observed(ctxs, c1)

\* C21: the filter answers true for every hash passed to AddHash, a filter
\* made for fewer than two keys is empty and answers true for every hash, and
\* the same holds for the filter read back from the file that Build wrote
C21_NoFalseNegatives ==
    /\ ef.made =>
         /\ \A h \in ef.added : FilterContainsHash(ef, h)
         /\ ef.n < 2 => ef.empty /\ \A h \in 0..MaxHash : FilterContainsHash(ef, h)
    /\ ef.rd.open =>
         /\ \A h \in ef.rd.src.hs : FilterContainsHash(ef.rd, h)
         /\ ef.rd.src.n < 2 => ef.rd.empty /\ \A h \in 0..MaxHash : FilterContainsHash(ef.rd, h)

\* C21 witness: a filter proper that was filled, built and opened again, and
\* that has a false positive
C21_Witness ==
    /\ ef.rd.open /\ ~ef.rd.empty /\ ef.rd.src.hs # {}
    /\ \E h \in 0..MaxHash : h \notin ef.rd.src.hs /\ FilterContainsHash(ef.rd, h)

\* C26: when the write, the fsync or the rename of ExistenceFilter.Build fails,
\* Build returns the error, the file under the final name is neither created
\* nor altered, and no .tmp file is left
C26_BuildFailureCleansTmp ==
    [][\A fail \in {"write", "fsync", "rename"} :
          ExistenceFilterBuild(fail) =>
              /\ ef'.failed
              /\ ("kvei" \in DOMAIN ef'.dir) = ("kvei" \in DOMAIN ef.dir)
              /\ "kvei" \in DOMAIN ef.dir => ef'.dir["kvei"] = ef.dir["kvei"]
              /\ "kvei.tmp" \notin DOMAIN ef'.dir]_vars

\* C22: when the process is killed between buildFiles and integrateFiles, no
\* file of the unfinished step is in the directory under a final name
C22_KillLeavesNoFinalFile ==
    [][Killed =>
          \A id \in DOMAIN objs["storage"] :
              (~\E f \in files["storage"] : Id(f) = id)
                  => ~\E e \in Artifacts(TRUE) \cup {"v"} : OnDisk("storage", id, e)]_vars

\* the commitment state records in the store
StoredStates ==
    ({cmt.valsT[r] : r \in DOMAIN cmt.valsT} \cup {cmt.histT[r] : r \in DOMAIN cmt.histT}) \ {0}

StateTxNum(v) == (v - 1) % (MaxTxNum + 1)
StateBlockNum(v) == (v - 1) \div (MaxTxNum + 1)

\* C23: over a store that holds commitment state records, SeekCommitment
\* restores the record with the greatest txNum and sets txNum and blockNum to
\* the values of that record; it fails when the last block of the TxNums index
\* is behind the block number of the record
C23_SeekRestoresLatest ==
    [][\A lastBn, execBn \in 0..MaxBlock :
          (SeekCommitment(lastBn, execBn) /\ StoredStates # {}) =>
              \E r \in StoredStates :
                  /\ \A q \in StoredStates : StateTxNum(q) <= StateTxNum(r)
                  /\ IF lastBn < StateBlockNum(r)
                     THEN err' /\ txNum' = txNum /\ cmt'.blockNum = cmt.blockNum
                     ELSE ~err' /\ txNum' = StateTxNum(r) /\ cmt'.blockNum = StateBlockNum(r)]_vars

\* C23 witness: a new SharedDomains (empty maps) over a store with two state
\* records stands at the txNum and the block of the later one
C23_Witness ==
    /\ ram["storage"] = EmptyFn /\ Pending = 0
    /\ txNum > 0 /\ cmt.blockNum > 0
    /\ \E r, q \in StoredStates :
          /\ StateTxNum(q) < StateTxNum(r)
          /\ StateTxNum(r) = txNum /\ StateBlockNum(r) = cmt.blockNum

\* the last row of writer w that has the key and second field of row i
LastOf(w, i) ==
    SetMax({j \in 1..Len(w) : w[j][1] = w[i][1] /\ w[j][2] = w[i][2]})

\* C30: a Flush that is not deferred stores the commitment record of
\* (blockNum, txNum) and materializes it together with every buffered domain
\* value, history pre-image and index entry, and leaves every writer and the
\* touched keys empty, so that a Flush right after it has nothing to write
C30_FlushMaterializesAll ==
    [][(Flush /\ ComputeCommitment(cmt).noFlush <= 1) =>
         /\ touched # {} =>
                GetLatestIn(cmt'.keysT, cmt'.valsT, <<>>, StateKey).v
                    = encodeCommitmentState(cmt.blockNum, txNum)
         /\ \A d \in Domains :
                /\ \A i \in 1..Len(walV[d]) :
                       /\ <<walV[d][i][1], walV[d][i][2]>> \in keysT'[d]
                       /\ <<walV[d][i][1], walV[d][i][2]>> \in DOMAIN valsT'[d]
                       /\ valsT'[d][<<walV[d][i][1], walV[d][i][2]>>]
                              = walV[d][LastOf(walV[d], i)][3]
                /\ \A i \in 1..Len(walH[d]) :
                       /\ <<walH[d][i][1], walH[d][i][2]>> \in idxT'[d]
                       /\ <<walH[d][i][1], walH[d][i][2]>> \in DOMAIN histT'[d]
         /\ \A i \in 1..Len(iix.wal) : iix.wal[i] \in iix'.rows
         /\ walV' = NoWal /\ walH' = NoWal
         /\ cmt'.walV = <<>> /\ cmt'.walH = <<>>
         /\ iix'.wal = <<>>
         /\ touched' = {}]_vars

\* a flush has materialized a storage write, an index entry and the
\* commitment record of a later transaction
C30_Witness ==
    /\ Pending = 0 /\ iix.wal = <<>> /\ cmt.walV = <<>> /\ touched = {}
    /\ keysT["storage"] # {}
    /\ iix.rows # {}
    /\ \E k \in cmt.keysT : k[1] = StateKey
    /\ txNum > 0

\* C24: opening the files of a domain returns no error whatever artifact is
\* missing or fails to open: every item left in the registry has its data file
\* open, an index that fails to open is left closed on an item that stays, and
\* the read-only list is the one computed from the registry
C24_OpenNeverFails ==
    [][\A names \in SUBSET FileIds, bad \in BadOpens :
          openList("storage", FileIds, names, FALSE, bad) =>
              /\ ~err'
              /\ \A f \in files'["storage"] : "kv" \in objs'["storage"][Id(f)].open
              /\ \A f \in files'["storage"] :
                     \A e \in {"kvi", "bt", "kvei"} :
                         (<<Id(f), e>> \in bad /\ e \notin heldOpen("storage", f))
                             => e \notin objs'["storage"][Id(f)].open
              /\ roFiles'["storage"] = ctxFiles(files'["storage"])]_vars

C27_FailsOnlyBehindDb ==
    \A prefix \in Prefixes :
        IterateStoragePrefix(prefix).err =>
            /\ DOMAIN ram["storage"] # {}
            /\ \E k \in {r[1] : r \in keysT["storage"]} :
                   /\ HasPrefix(k, prefix)
                   /\ txNum < InvStep(FirstDup(keysT["storage"], k)) * StepSize

\* C28: collate(step, txFrom, txTo) panics before it makes any output unless
\* txFrom and txTo are multiples of the step size; otherwise it emits, in
\* ascending key order, one (key, value) pair for each key that has a keys
\* row of ^step, with the value stored under key + ^step, and nothing else
C28_CollateEmitsStepRows ==
    \A step \in Steps, txFrom \in TxNums, txTo \in TxNums :
        LET c == collateRun("storage", step, txFrom, txTo)
            ks == {r[1] : r \in {q \in keysT["storage"] : q[2] = InvStep(step)}}
        IN IF txFrom % StepSize # 0 \/ txTo % StepSize # 0
           THEN c.panic /\ ~c.created /\ c.words = <<>>
           ELSE /\ ~c.panic
                /\ StrictlyAscending(c.words)
                /\ {c.words[i] : i \in 1..Len(c.words)}
                      = {<<k, valsT["storage"][<<k, InvStep(step)>>]>> : k \in ks}
                /\ collate("storage", step) = [k \in ks |-> valsT["storage"][<<k, InvStep(step)>>]]

\* the hot tier holds a key changed in step 0 and in step 1, and a key
\* changed in step 1 only
C28_Witness ==
    \E k1, k2 \in StorageKeys :
        /\ k1 # k2
        /\ {<<k1, InvStep(0)>>, <<k1, InvStep(1)>>, <<k2, InvStep(1)>>} \subseteq keysT["storage"]
        /\ <<k2, InvStep(0)>> \notin keysT["storage"]

\* C29: an OpenList that names a range follows the dedup policy of the
\* registry: an item of the same range that is registered stays as it is, with
\* its handles; a range strictly inside a frozen item is not registered; and
\* the registered items strictly inside a newly registered range are marked
\* for deletion (canDelete), to go when their last reader closes
C29_InsertionDedup ==
    \A histNames \in {{}, FileIds}, names \in SUBSET FileIds :
        LET r == openListResult("storage", histNames, names, FALSE, {})
            kept == closeWhatNotInList("storage", names)
            new == {id \in names : ~\E f \in kept : Id(f) = id}
        IN CanOpenList("storage", names) =>
              /\ \A f \in kept :
                     f \in r.files =>
                         objs["storage"][Id(f)].open \subseteq r.objs[Id(f)].open
              /\ \A id \in new, g \in kept :
                     (g.frozen /\ isSubsetOf(newFilesItem(id[1], id[2]), g))
                         => ~\E f \in r.files : Id(f) = id
              /\ \A id \in new, s \in kept :
                     (/\ isSubsetOf(s, newFilesItem(id[1], id[2]))
                      /\ \E f \in r.files : Id(f) = id
                      /\ s \in r.files)
                         => r.objs[Id(s)].canDelete

\* at most TorrentLimit tasks run at the same time
BoundedTasks == Cardinality(ActiveTasks) <= TorrentLimit

\* the call returns the error of the task that failed first, nil when none did
ReturnsFirstError ==
    bt.phase = "done" =>
        /\ bt.ret = IF bt.errs = <<>> THEN 0 ELSE bt.errs[1]
        /\ \A f \in 1..bt.n : bt.st[f] = "done"
        /\ (\E f \in 1..bt.n : bt.res[f] # 0) => bt.ret # 0

\* C31: BuildTorrentFilesIfNeed never runs more than the limit of tasks at
\* once, a call that was made returns in the end (with tasks that finish and
\* a ticker that ticks, also when the context is cancelled), and it returns
\* the first error of a task
C31_BoundedAndReturns ==
    /\ [](BoundedTasks /\ ReturnsFirstError)
    /\ (bt.phase # "idle") ~> (bt.phase = "done")

\* a call over MaxFiles files has returned the error of the task that failed
\* first, after a second task failed as well
C31_Witness ==
    /\ bt.phase = "done" /\ bt.n = MaxFiles
    /\ Len(bt.errs) >= 2
    /\ bt.errs[1] > 0 /\ bt.errs[2] > 0
    /\ bt.ret = bt.errs[1]

\* C32: a Flush that materializes the writers empties the in-memory maps:
\* right after it SharedDomains.Get misses every key written before it
C32_FlushInvalidatesGet ==
    [][(Flush /\ ComputeCommitment(cmt).noFlush <= 1) =>
          \A d \in Domains : \A k \in DOMAIN ram[d] : ~Get([ram |-> ram'], d, k).ok]_vars

\* C33: when no commitment state is stored and the Execution stage progress
\* is a block above 0, SeekCommitment sets blockNum to that block and txNum
\* to TxNums.Max of it, or both to 0 when the root rebuilt from the account
\* and storage history is the empty root hash
C33_SeeksFromExecutionProgress ==
    [][\A lastBn \in 0..MaxBlock : \A execBn \in 1..MaxBlock :
          (SeekCommitment(lastBn, execBn) /\ LatestCommitmentState(cmt).state = 0) =>
              IF rebuiltRootEmpty(cmt, TxNumsMax(execBn))
              THEN cmt'.blockNum = 0 /\ txNum' = 0
              ELSE cmt'.blockNum = execBn /\ txNum' = TxNumsMax(execBn)]_vars

\* the open contexts of domain d whose file list holds the item of range id
\* as an item that is not frozen
Readers(d, id) ==
    {c \in CtxIds : /\ ctxs[c] # NoFiles
                    /\ ctxs[c].d = d
                    /\ \E i \in 1..Len(ctxs[c].files) :
                          Id(ctxs[c].files[i]) = id /\ ~ctxs[c].files[i].frozen}

\* C34: the refcount of every file item is the number of open DomainContexts
\* whose list holds the item as a non-frozen one (a context closed once or
\* more counts no longer), and it is never negative; a frozen item of the
\* registry is counted by no context
C34_RefcountIsReaders ==
    \A d \in Domains :
        /\ \A id \in DOMAIN objs[d] :
              /\ objs[d][id].refcount = Cardinality(Readers(d, id))
              /\ objs[d][id].refcount >= 0
        /\ \A f \in files[d] : f.frozen => objs[d][Id(f)].refcount = 0

\* C34 witness: two open contexts hold the same registered item, a third
\* range is registered and held by none
C34_Witness ==
    \E id, other \in DOMAIN objs["storage"] :
        /\ objs["storage"][id].refcount = 2
        /\ Cardinality(Readers("storage", id)) = 2
        /\ \E f \in files["storage"] : Id(f) = other
        /\ objs["storage"][other].refcount = 0

\* C35: no open DomainContext holds an item that a Close has closed and
\* removed, however MakeContext, Close and the merge interleave
C35_NoContextHoldsRemovedFile ==
    \A c \in CtxIds :
        ctxs[c] # NoFiles =>
            \A i \in 1..Len(ctxs[c].files) :
                objs[ctxs[c].d][Id(ctxs[c].files[i])].open # {}

\* C36: every nested NewSharedDomains call defers one Flush: a Flush called
\* while nested calls are outstanding (noFlush >= 1) computes the commitment
\* and writes nothing to the transaction; the Flush called with none
\* outstanding materializes the buffered writers
C36_NestedDefersOneFlush ==
    [][Flush =>
         IF cmt.noFlush >= 1
         THEN /\ UNCHANGED <<keysT, valsT, histT, idxT>>
              /\ cmt'.keysT = cmt.keysT /\ cmt'.valsT = cmt.valsT
              /\ cmt'.histT = cmt.histT /\ cmt'.idxT = cmt.idxT
              /\ iix'.rows = iix.rows
              /\ cmt'.noFlush = cmt.noFlush - 1
         ELSE /\ walV' = NoWal /\ walH' = NoWal
              /\ cmt'.walV = <<>> /\ cmt'.walH = <<>> /\ iix'.wal = <<>>]_vars

\* the file list fl with an existence filter on every file, the filter of the
\* files in fpos answering true for key k also when the file has no such key
WithFilters(fl, k, fpos) ==
    [i \in 1..Len(fl) |->
        [fl[i] EXCEPT !.existence =
            [present |-> TRUE,
             keys |-> BuildExistence(fl[i].kv, TRUE, StorageKeys).keys
                        \cup (IF i \in fpos THEN {k} ELSE {})]]]

\* the file list fl with no existence filter on any file
WithoutFilters(fl) ==
    [i \in 1..Len(fl) |-> [fl[i] EXCEPT !.existence = [present |-> FALSE, keys |-> {}]]]

\* C37: for every key and every visible file list, the files and GetLatest
\* answer the same with filters on all files, whatever false positives they
\* have, with the filters the files carry, and with no filter at all
C37_FilterIsOptimization ==
    LET fl == roFiles["storage"]
        kt == keysT["storage"]
        vt == valsT["storage"]
    IN \A k \in StorageKeys :
          /\ getLatestFromFiles(fl, k) = getLatestFromFiles(WithoutFilters(fl), k)
          /\ \A fpos \in SUBSET (1..Len(fl)) :
                /\ getLatestFromFiles(WithFilters(fl, k, fpos), k)
                     = getLatestFromFiles(WithoutFilters(fl), k)
                /\ GetLatestIn(kt, vt, WithFilters(fl, k, fpos), k)
                     = GetLatestIn(kt, vt, WithoutFilters(fl), k)

\* C37 witness: a visible file of two keys carries a filter proper, which
\* answers false for a key; one of its keys is pruned from the hot tier, so
\* that GetLatest finds it in the file
C37_Witness ==
    LET fl == roFiles["storage"]
    IN \E i \in 1..Len(fl) :
          /\ fl[i].existence.present
          /\ Cardinality(DOMAIN fl[i].kv) >= 2
          /\ \E k \in StorageKeys : ~ContainsHash(fl[i], k)
          /\ \E k \in DOMAIN fl[i].kv :
                /\ RowsOf(keysT["storage"], k) = {}
                /\ GetLatest("storage", k).found

\* C38: storeCommitmentState appends its record with the state written by
\* the store before it as pre-image, be that store flushed or still in the
\* commitment writer, and skips the record only when the encoded state
\* equals that preceding state
C38_PreImageIsPrecedingStore ==
    (cmt.mode = "direct" /\ touched # {}) =>
        LET c == ComputeCommitment(cmt)
            enc == encodeCommitmentState(cmt.blockNum, txNum)
            preceding == IF cmt.walV # <<>> THEN cmt.walV[Len(cmt.walV)][3]
                         ELSE GetLatestIn(cmt.keysT, cmt.valsT, <<>>, StateKey).v
        IN IF enc = preceding THEN c = cmt
           ELSE /\ c.walH = Append(cmt.walH, <<StateKey, txNum, preceding>>)
                /\ c.walV = Append(cmt.walV, <<StateKey, InvStep(txNum \div StepSize), enc>>)

\* C39: Close releases every buffered writer of the instance, those of
\* accounts, storage, code and commitment and those of the inverted indexes,
\* and sets txNum and blockNum to 0
C39_CloseReleasesAll ==
    [][Close =>
         /\ walH' = NoWal /\ walV' = NoWal
         /\ cmt'.walH = <<>> /\ cmt'.walV = <<>>
         /\ iix'.wal = <<>>
         /\ txNum' = 0 /\ cmt'.blockNum = 0]_vars

RECURSIVE MapSize(_, _)
\* the sum of len(key) + len(value) over the entries ks of map m
MapSize(m, ks) ==
    IF ks = {} THEN 0
    ELSE LET k == CHOOSE x \in ks : TRUE
         IN KeyLen(k) + ValLen(m[k]) + MapSize(m, ks \ {k})

\* the four in-memory maps together
RamSize ==
    MapSize(ram["accounts"], DOMAIN ram["accounts"])
      + MapSize(ram["storage"], DOMAIN ram["storage"])
      + MapSize(ram["code"], DOMAIN ram["code"])
      + MapSize(cmt.ram, DOMAIN cmt.ram)

\* C40: estSize is the sum of len(key) + len(value) over the entries of the
\* four in-memory maps, it is never negative, and SizeEstimate is twice it
C40_EstSizeIsSum ==
    /\ estSize = RamSize
    /\ estSize >= 0
    /\ SizeEstimate = 2 * RamSize

\* C40 witness: entries in the storage, accounts and commitment maps, one of
\* them a deleted key (the key is counted, the value is nil)
C40_Witness ==
    /\ estSize >= 4
    /\ DOMAIN cmt.ram # {}
    /\ DOMAIN ram["accounts"] # {}
    /\ \E k \in DOMAIN ram["storage"] : ValLen(ram["storage"][k]) = 0

====
